---- MODULE Spec2Model ----
(***************************************************************************)
(* Key lifecycle of the gateway admin API (gateway/api.go): the handlers   *)
(* behind /keys/{keyName} and /keys/create, working against the session    *)
(* store and the quota counters of the backing store.                      *)
(*                                                                         *)
(* A key name is a sequence of strings: <<n>> is a plain name, the token   *)
(* of an org and a name is <<"tok", org>> \o name, the hash of a name is   *)
(* <<"h">> \o name.  Both constructions are injective, as the string       *)
(* functions they stand for are taken to be.                               *)
(***************************************************************************)
EXTENDS Integers, Sequences, FiniteSets, TLC

VARIABLES
  sessions,   \* backing store: session records by store address
  quota,      \* backing store: usage counters by <<scope>> \o address
  now,        \* the clock, in seconds
  cfg,        \* the gateway configuration
  ops,        \* number of admin requests served
  req,        \* the admin request being served, if any
  resp,       \* the response to the request served last
  inflight,   \* the key creations that run concurrently, by process
  clients,    \* backing store: the OAuth clients of each API, by client id
  tokens,     \* backing store: the access tokens of each API
  managers,   \* the APIs whose OAuthManager is set
  reloadQueue,\* the completion callbacks of the reloads that are queued
  swapping,   \* a reload is swapping the registry
  swaps,      \* number of swaps completed
  callers,    \* the /reload requests, by caller
  files,      \* the definition files on disk: APIs, OAS documents, policies
  registry,   \* gw.apisByID and gw.policiesByID, the live registry
  loaded,     \* the definitions that the reload under way has read
  bus,        \* the notifications published on the bus
  readers     \* the request goroutines that read the registry, by process

oauthVars == <<clients, tokens, managers>>

reloadVars == <<reloadQueue, swapping, swaps, callers>>

registryVars == <<files, registry, loaded, bus, readers>>

vars == <<sessions, quota, now, cfg, ops, req, resp, inflight, clients, tokens,
          managers, reloadQueue, swapping, swaps, callers, files, registry,
          loaded, bus, readers>>

\* ---------------------------------------------------------------- bounds
MaxOps == 2
MaxTime == 4
MaxUse == 1

\* ------------------------------------------------------------ the fleet
Org == "o1"

\* gw.apisByID: the registered API definitions ("apiX" is not registered)
apisByID ==
  [a \in {"api1", "api2"} |->
     [OrgID |-> Org, DontSetQuotasOnCreate |-> (a = "api2")]]

ZeroLimit ==
  [QuotaMax |-> 0, QuotaRenewalRate |-> 0, QuotaRenews |-> 0,
   QuotaRemaining |-> 0]

Access(lim, scope) == [Limit |-> lim, AllowanceScope |-> scope]

\* gw.policiesByID
policiesByID ==
  [p \in {"p1", "p2"} |->
     IF p = "p1"
       THEN [KeyExpiresIn |-> 2,
             AccessRights |->
               [a \in {"api1"} |->
                  Access([QuotaMax |-> 3, QuotaRenewalRate |-> 1,
                          QuotaRenews |-> 0, QuotaRemaining |-> 0], "")]]
       ELSE [KeyExpiresIn |-> 0,
             AccessRights |->
               [a \in {"api1", "api2"} |->
                  Access([QuotaMax |-> IF a = "api1" THEN 4 ELSE 1,
                          QuotaRenewalRate |-> 1, QuotaRenews |-> 0,
                          QuotaRemaining |-> 0], "s2")]]]

\* gw.apisByID of the OAuth deployment: two OAuth2 APIs, one that enables
\* JWT only and one that enables neither ("apiX" is not registered)
oauthApisByID ==
  [a \in {"a1", "a2", "j1", "n1"} |->
     [OrgID |-> Org, UseOauth2 |-> (a \in {"a1", "a2"}), EnableJWT |-> (a = "j1")]]

\* gw.policiesByID of the OAuth deployment: the APIs in the access rights of
\* each policy
oauthPoliciesByID ==
  [p \in {"qa", "qj", "qn", "qx", "qp"} |->
     [AccessRights |->
        [a \in (CASE p = "qa" -> {"a1", "a2"}
                  [] p = "qj" -> {"a1", "j1"}
                  [] p = "qn" -> {"n1"}
                  [] p = "qp" -> {"a1", "apiX"}
                  [] OTHER -> {"n1", "apiX"}) |-> TRUE]]]

\* no OAuth client is registered and no token issued; the APIs that use
\* OAuth2 were loaded with their OAuthManager
NoClients ==
  /\ clients = [a \in DOMAIN oauthApisByID |-> <<>>]
  /\ tokens = [a \in DOMAIN oauthApisByID |-> {}]
  /\ managers = {a \in DOMAIN oauthApisByID : oauthApisByID[a].UseOauth2}

\* the definitions that were loaded: no reload has anything read
NoDefinitions == [apis |-> <<>>, policies |-> <<>>, none |-> TRUE]

\* the registry holds what the files on disk define, nothing is published and
\* no request reads the registry
RegistryIdle ==
  /\ files = [apis |-> apisByID, oas |-> DOMAIN apisByID, policies |-> policiesByID]
  /\ registry = [apis |-> apisByID, policies |-> policiesByID]
  /\ loaded = NoDefinitions
  /\ bus = <<>>
  /\ readers = <<>>

\* no reload is queued or running
ReloadIdle ==
  /\ reloadQueue = <<>>
  /\ swapping = FALSE
  /\ swaps = 0
  /\ callers = <<>>

\* ------------------------------------------------------------ key names
generateToken(orgID, keyName) == <<"tok", orgID>> \o keyName

TokenOrg(keyName) ==
  IF Len(keyName) >= 2 /\ keyName[1] = "tok" THEN keyName[2] ELSE ""

HashKey(keyName, hashKeys) == IF hashKeys THEN <<"h">> \o keyName ELSE keyName

\* the store address of a key: a hashed request names the address itself
Addr(keyName, isHashed) ==
  IF isHashed THEN keyName ELSE HashKey(keyName, cfg.HashKeys)

\* the prefixes of the counter keys in the store's namespace
QuotaKeyPrefix == "quota-"
RateLimitKeyPrefix == "rate-limit-"

\* ------------------------------------------------------- finite maps
Put(f, k, v) == [x \in (DOMAIN f) \cup {k} |-> IF x = k THEN v ELSE f[x]]

Del(f, k) == [x \in (DOMAIN f) \ {k} |-> f[x]]

EmptyMap == [x \in {} |-> 0]

\* ------------------------------------------------------------- sessions
\* user.APILimit.IsEmpty: no field of the limit is set
IsEmpty(limit) ==
  /\ limit.QuotaMax = 0
  /\ limit.QuotaRenewalRate = 0
  /\ limit.QuotaRenews = 0
  /\ limit.QuotaRemaining = 0

\* the zero value of user.SessionState
ZeroSession ==
  [OrgID |-> "", AccessRights |-> EmptyMap, ApplyPolicies |-> <<>>,
   QuotaMax |-> 0, QuotaRenewalRate |-> 0, QuotaRenews |-> 0,
   QuotaRemaining |-> 0, LastUpdated |-> 0, DateCreated |-> 0, Expires |-> 0, Certificate |-> "",
   BasicAuthData |-> [Password |-> <<>>, Hash |-> ""]]

\* SessionStore.get: the session stored for the key, and the KeyID under
\* which it is addressed
SessionDetail(st, orgID, keyName, hashed) ==
  LET a == Addr(keyName, hashed) IN
  IF a \in DOMAIN st.sessions
    THEN [found |-> TRUE, session |-> st.sessions[a], KeyID |-> keyName]
    ELSE [found |-> FALSE, session |-> ZeroSession, KeyID |-> <<>>]

\* SessionStore.set
UpdateSession(st, keyName, session, hashed) ==
  [st EXCEPT !.sessions = Put(st.sessions, Addr(keyName, hashed), session)]

\* SessionStore.delete: whether a record was removed, and the store after
RemoveSession(st, orgID, keyName, hashed) ==
  LET a == Addr(keyName, hashed) IN
  [removed |-> a \in DOMAIN st.sessions,
   st |-> [st EXCEPT !.sessions = Del(st.sessions, a)]]

\* the counter keys of a key: its own and one per allowance scope
QuotaKeys(keyName, session, isHashed) ==
  {<<"">> \o Addr(keyName, isHashed)} \cup
  {<<session.AccessRights[a].AllowanceScope>> \o Addr(keyName, isHashed) :
     a \in DOMAIN session.AccessRights}

\* QuotaLedger.ResetQuota: the stored usage of the key goes back to zero,
\* which the store holds as an absent counter
ResetQuota(st, keyName, session, isHashed) ==
  [st EXCEPT !.quota =
     [k \in (DOMAIN st.quota) \ QuotaKeys(keyName, session, isHashed) |->
        st.quota[k]]]

\* a merge in which the session's own access right wins over the policy's
MergePolicyKeep(rights, pol) ==
  [a \in (DOMAIN rights) \cup (DOMAIN pol.AccessRights) |->
     IF a \in DOMAIN rights THEN rights[a] ELSE pol.AccessRights[a]]

\* merge of one policy: each API the policy names takes the policy's
\* access definition
MergePolicy(rights, pol) ==
  [a \in (DOMAIN rights) \cup (DOMAIN pol.AccessRights) |->
     IF a \in DOMAIN pol.AccessRights THEN pol.AccessRights[a] ELSE rights[a]]

RECURSIVE MergePolicies(_, _)
MergePolicies(rights, polIDs) ==
  IF polIDs = <<>> THEN rights
  ELSE MergePolicies(
         IF Head(polIDs) \in DOMAIN policiesByID
           THEN MergePolicy(rights, policiesByID[Head(polIDs)])
           ELSE rights,
         Tail(polIDs))

\* PolicyApplier: the policies of the session, in the order of its list
ApplyPolicies(session) ==
  [session EXCEPT
     !.AccessRights = MergePolicies(session.AccessRights, session.ApplyPolicies)]

\* ------------------------------------------------------- gateway/api.go
getApiSpecFound(apiID) == apiID \in DOMAIN apisByID

RECURSIVE TrialLoop(_, _, _, _, _)
TrialLoop(st, keyName, newSession, isHashed, polIDs) ==
  IF polIDs = <<>> THEN newSession
  ELSE LET polID == Head(polIDs)
           rest == Tail(polIDs)
       IN IF polID \notin DOMAIN policiesByID
            THEN TrialLoop(st, keyName, newSession, isHashed, rest)
          ELSE IF /\ policiesByID[polID].KeyExpiresIn > 0
                  /\ ~SessionDetail(st, newSession.OrgID, keyName, isHashed).found
            THEN TrialLoop(st, keyName,
                   [newSession EXCEPT
                      !.Expires = now + policiesByID[polID].KeyExpiresIn],
                   isHashed, rest)
          ELSE TrialLoop(st, keyName, newSession, isHashed, rest)

checkAndApplyTrialPeriod(st, keyName, newSession, isHashed) ==
  TrialLoop(st, keyName, newSession, isHashed, newSession.ApplyPolicies)

\* result: the store, the session as the callee left it, the error
applyPoliciesAndSave(st, keyName, session, isHashed) ==
  LET s == ApplyPolicies(session) IN
  [st |-> UpdateSession(st, keyName, s, isHashed), sess |-> s, err |-> ""]

\* a reset that clears the limit of every access right
resetAPILimitsAll(accessRights) ==
  [a \in DOMAIN accessRights |-> [accessRights[a] EXCEPT !.Limit = ZeroLimit]]

resetAPILimits(accessRights) ==
  [a \in DOMAIN accessRights |->
     IF ~IsEmpty(accessRights[a].Limit) /\ accessRights[a].Limit = ZeroLimit
       THEN [accessRights[a] EXCEPT !.Limit = ZeroLimit]
       ELSE accessRights[a]]

\* a round that passes over an API that is not registered
AddForApiSkip(c, keyName, apiId, dontReset, isHashed) ==
  IF ~getApiSpecFound(apiId)
    THEN c
  ELSE
    LET s1 == checkAndApplyTrialPeriod(c.st, keyName, c.sess, isHashed) IN
    IF ~apisByID[apiId].DontSetQuotasOnCreate
      THEN IF ~dontReset
             THEN applyPoliciesAndSave(
                    ResetQuota(c.st, keyName, s1, isHashed), keyName,
                    [s1 EXCEPT !.QuotaRenews = now + s1.QuotaRenewalRate],
                    isHashed)
             ELSE applyPoliciesAndSave(c.st, keyName, s1, isHashed)
      ELSE [c EXCEPT !.sess = s1]

\* one round of the loop of doAddOrUpdate over the access rights
AddForApi(c, keyName, apiId, dontReset, isHashed) ==
  IF ~getApiSpecFound(apiId)
    THEN [c EXCEPT !.err = "API must be active to add keys"]
  ELSE
    LET s1 == checkAndApplyTrialPeriod(c.st, keyName, c.sess, isHashed) IN
    IF ~apisByID[apiId].DontSetQuotasOnCreate
      THEN IF ~dontReset
             THEN applyPoliciesAndSave(
                    ResetQuota(c.st, keyName, s1, isHashed), keyName,
                    [s1 EXCEPT !.QuotaRenews = now + s1.QuotaRenewalRate],
                    isHashed)
             ELSE applyPoliciesAndSave(c.st, keyName, s1, isHashed)
      ELSE [c EXCEPT !.sess = s1]

RECURSIVE AddForApis(_, _, _, _, _)
AddForApis(c, keyName, ord, dontReset, isHashed) ==
  IF ord = <<>> \/ c.err # "" THEN c
  ELSE AddForApis(AddForApi(c, keyName, Head(ord), dontReset, isHashed),
                  keyName, Tail(ord), dontReset, isHashed)

\* one round of the loop of doAddOrUpdate over every registered API
AddForAll(c, keyName, dontReset, isHashed) ==
  LET st1 == IF ~dontReset THEN ResetQuota(c.st, keyName, c.sess, isHashed)
                           ELSE c.st
      s1 == IF ~dontReset
              THEN [c.sess EXCEPT !.QuotaRenews = now + c.sess.QuotaRenewalRate]
              ELSE c.sess
  IN applyPoliciesAndSave(st1, keyName,
       checkAndApplyTrialPeriod(st1, keyName, s1, isHashed), isHashed)

RECURSIVE AddForAlls(_, _, _, _, _)
AddForAlls(c, keyName, ord, dontReset, isHashed) ==
  IF ord = <<>> \/ c.err # "" THEN c
  ELSE AddForAlls(AddForAll(c, keyName, dontReset, isHashed),
                  keyName, Tail(ord), dontReset, isHashed)

\* an update that adds a master key without asking the configuration
doAddOrUpdateMaster(st, keyName, newSession, dontReset, isHashed, ord) ==
  LET s0 == IF ~dontReset THEN [newSession EXCEPT !.LastUpdated = now]
                          ELSE newSession
  IN IF DOMAIN s0.AccessRights # {}
       THEN AddForApis(
              [st |-> st,
               sess |-> [s0 EXCEPT !.AccessRights = resetAPILimits(@)],
               err |-> ""],
              keyName, ord, dontReset, isHashed)
     ELSE AddForAlls([st |-> st, sess |-> s0, err |-> ""],
                     keyName, ord, dontReset, isHashed)

\* an update that resets whether or not it was asked not to
doAddOrUpdateReset(st, keyName, newSession, dontReset, isHashed, ord) ==
  LET s0 == [newSession EXCEPT !.LastUpdated = now]
  IN IF DOMAIN s0.AccessRights # {}
       THEN AddForApis(
              [st |-> st,
               sess |-> [s0 EXCEPT !.AccessRights = resetAPILimits(@)],
               err |-> ""],
              keyName, ord, FALSE, isHashed)
     ELSE IF ~cfg.AllowMasterKeys
       THEN [st |-> st, sess |-> s0, err |-> "Master keys not allowed"]
     ELSE AddForAlls([st |-> st, sess |-> s0, err |-> ""],
                     keyName, ord, FALSE, isHashed)

\* ord is the order in which the map in question is ranged over
doAddOrUpdate(st, keyName, newSession, dontReset, isHashed, ord) ==
  LET s0 == IF ~dontReset THEN [newSession EXCEPT !.LastUpdated = now]
                          ELSE newSession
  IN IF DOMAIN s0.AccessRights # {}
       THEN AddForApis(
              [st |-> st,
               sess |-> [s0 EXCEPT !.AccessRights = resetAPILimits(@)],
               err |-> ""],
              keyName, ord, dontReset, isHashed)
     ELSE IF ~cfg.AllowMasterKeys
       THEN [st |-> st, sess |-> s0, err |-> "Master keys not allowed"]
     ELSE AddForAlls([st |-> st, sess |-> s0, err |-> ""],
                     keyName, ord, dontReset, isHashed)

\* gw.CertificateManager: the certificates it holds
CertStore == {"c1", "c2"}

\* Store().GetKey finds a record for the key
StoreHasKey(st, keyName) == Addr(keyName, FALSE) \in DOMAIN st.sessions

\* suppress_reset that carries no renewal into the access rights
CarryRenewsNone(newRights, origRights) == newRights

\* the access rights of newSession that suppress_reset carries the
\* quota renewal of the original key into (api.go 389-397)
CarryRenews(newRights, origRights) ==
  [a \in DOMAIN newRights |->
     IF /\ a \in DOMAIN origRights
        /\ ~IsEmpty(origRights[a].Limit)
        /\ ~IsEmpty(newRights[a].Limit)
       THEN [newRights[a] EXCEPT
               !.Limit.QuotaRenews = origRights[a].Limit.QuotaRenews]
       ELSE newRights[a]]

\* an update that takes the creation date of the payload
KeepOriginalNoDate(newSession, originalKey, suppressReset) ==
  IF suppressReset
    THEN [newSession EXCEPT
            !.QuotaRenews = originalKey.QuotaRenews,
            !.LastUpdated = originalKey.LastUpdated,
            !.AccessRights = CarryRenews(@, originalKey.AccessRights)]
    ELSE newSession

\* the fields of the original key that an update preserves (api.go 374-398)
KeepOriginal(newSession, originalKey, suppressReset) ==
  LET n1 == [newSession EXCEPT !.DateCreated = originalKey.DateCreated] IN
  IF suppressReset
    THEN [n1 EXCEPT
            !.QuotaRenews = originalKey.QuotaRenews,
            !.LastUpdated = originalKey.LastUpdated,
            !.AccessRights = CarryRenews(@, originalKey.AccessRights)]
    ELSE n1

\* set the original expiry if the payload carries a past time (api.go 404-407)
FixExpires(newSession, originalKey) ==
  IF now > newSession.Expires /\ newSession.Expires > 1
    THEN [newSession EXCEPT !.Expires = originalKey.Expires]
    ELSE newSession

Reply(st, code, msg, key, err) ==
  [st |-> st, code |-> code, msg |-> msg, key |-> key, err |-> err]

\* user.HashPlainText and user.HashBCrypt: the hash kinds of a basic-auth
\* password
HashPlainText == ""

HashBCrypt == "bcrypt"

\* passwords are sequences of strings: <<>> is the empty password, <<"pw1">>
\* a plaintext, <<"$2a">> \o p the bcrypt hash of p.  The passwords the
\* hasher rejects (bcrypt refuses an input of more than 72 bytes)
Unhashable == {<<"long">>, <<"longer">>}

\* bcrypt.GenerateFromPassword: the hash of the password, or an error
GenerateFromPassword(password) ==
  IF password \in Unhashable
    THEN [err |-> "bcrypt: password length exceeds 72 bytes", hash |-> <<>>]
    ELSE [err |-> "", hash |-> <<"$2a">> \o password]

\* setSessionPassword: hash the session's password, or on a hashing error
\* leave it as it is and mark it plaintext
setSessionPassword(session) ==
  LET h == GenerateFromPassword(session.BasicAuthData.Password)
  IN IF h.err # ""
       THEN [session EXCEPT !.BasicAuthData.Hash = HashPlainText]
       ELSE [session EXCEPT !.BasicAuthData = [Password |-> h.hash, Hash |-> HashBCrypt]]

\* an update that hashes every non-empty password, equal to the stored one
\* or not
SessionPasswordAlways(newSession, originalKey, method) ==
  IF newSession.BasicAuthData.Password # <<>>
    THEN setSessionPassword(newSession)
    ELSE IF originalKey.BasicAuthData.Password # <<>>
      THEN [newSession EXCEPT !.BasicAuthData = originalKey.BasicAuthData]
      ELSE newSession

\* handleAddOrUpdate, the password block: a create hashes a non-empty
\* password, an update hashes it when it differs from the stored one, and an
\* empty password keeps the stored basic-auth data
SessionPassword(newSession, originalKey, method) ==
  IF newSession.BasicAuthData.Password # <<>>
    THEN IF method = "POST"
           THEN setSessionPassword(newSession)
           ELSE IF method = "PUT"
                   /\ originalKey.BasicAuthData.Password # newSession.BasicAuthData.Password
             THEN setSessionPassword(newSession)
             ELSE newSession
    ELSE IF originalKey.BasicAuthData.Password # <<>>
      THEN [newSession EXCEPT !.BasicAuthData = originalKey.BasicAuthData]
      ELSE newSession

\* the tail of handleAddOrUpdate, from the expiry correction on
SaveKey(st, method, keyName, newSession, originalKey, suppressReset, isHashed, ord) ==
  LET n == SessionPassword(FixExpires(newSession, originalKey), originalKey, method)
      newFormatKey == generateToken(n.OrgID, keyName)
      target == IF method = "POST" \/ TokenOrg(keyName) # "" THEN keyName
                ELSE IF StoreHasKey(st, newFormatKey) THEN newFormatKey
                ELSE keyName
      r == doAddOrUpdate(st, target, n, suppressReset, isHashed, ord)
  IN IF r.err # ""
       THEN Reply(r.st, 500,
                  "Failed to create key, ensure security settings are correct.",
                  <<>>, r.err)
       ELSE Reply(r.st, 200, IF method = "POST" THEN "added" ELSE "modified",
                  target, "")

\* an update that stores whatever certificate the payload carries
handleAddOrUpdateAnyCert(st, keyName, payload, method, isHashed, suppressReset, ord) ==
  LET n0 == ApplyPolicies(payload) IN
  IF method = "PUT"
    THEN
      LET d == SessionDetail(st, n0.OrgID, keyName, isHashed)
          originalKey == d.session
          n2 == KeepOriginal(n0, originalKey, suppressReset)
      IN IF ~d.found
           THEN Reply(st, 404, "Key is not found", <<>>, "")
         ELSE SaveKey(st, method, d.KeyID, n2, originalKey, suppressReset,
                      isHashed, ord)
    ELSE SaveKey(st, method, generateToken(n0.OrgID, keyName),
                 [n0 EXCEPT !.DateCreated = now], ZeroSession, suppressReset,
                 isHashed, ord)

\* an update that does not look the key up and stores it as a new one
handleAddOrUpdateUpsert(st, keyName, payload, method, isHashed, suppressReset, ord) ==
  SaveKey(st, method,
          IF method = "PUT" THEN keyName
          ELSE generateToken(ApplyPolicies(payload).OrgID, keyName),
          [ApplyPolicies(payload) EXCEPT !.DateCreated = now], ZeroSession,
          suppressReset, isHashed, ord)

handleAddOrUpdate(st, keyName, payload, method, isHashed, suppressReset, ord) ==
  LET n0 == ApplyPolicies(payload) IN
  IF method = "PUT"
    THEN
      LET d == SessionDetail(st, n0.OrgID, keyName, isHashed)
          originalKey == d.session
          n2 == KeepOriginal(n0, originalKey, suppressReset)
      IN IF ~d.found
           THEN Reply(st, 404, "Key is not found", <<>>, "")
         ELSE IF n0.Certificate # originalKey.Certificate /\ n0.Certificate = ""
           THEN Reply(st, 400, "Key cannot be used without a certificate",
                      <<>>, "")
         ELSE IF /\ n0.Certificate # originalKey.Certificate
                 /\ n0.Certificate \notin CertStore
           THEN Reply(st, 400, "Key must be used with an existent certificate",
                      <<>>, "")
         ELSE SaveKey(st, method, d.KeyID, n2, originalKey, suppressReset,
                      isHashed, ord)
    ELSE SaveKey(st, method, generateToken(n0.OrgID, keyName),
                 [n0 EXCEPT !.DateCreated = now], ZeroSession, suppressReset,
                 isHashed, ord)

\* what is left of an allowance, not held at zero
RemainingUnclamped(max, used) == max - used

\* handleGetDetail: what is left of an allowance whose counter was read
Remaining(max, used) == IF max - used < 0 THEN 0 ELSE max - used

\* a loop that reads the key's own counter for every access right
LimitDetailGlobal(st, access, sessionKey, byHash) ==
  IF IsEmpty(access.Limit) \/ access.Limit.QuotaMax = -1
       \/ access.Limit.QuotaMax = 0
    THEN access
    ELSE LET limQuotaKey == <<"">> \o Addr(sessionKey, byHash) IN
         [access EXCEPT !.Limit.QuotaRemaining =
            IF limQuotaKey \in DOMAIN st.quota
              THEN Remaining(access.Limit.QuotaMax, st.quota[limQuotaKey])
              ELSE access.Limit.QuotaMax]

\* handleGetDetail, the loop over the access rights: the access right with
\* the remaining allowance of its limit filled in
LimitDetail(st, access, sessionKey, byHash) ==
  IF IsEmpty(access.Limit) \/ access.Limit.QuotaMax = -1
       \/ access.Limit.QuotaMax = 0
    THEN access
    ELSE LET limQuotaKey == <<access.AllowanceScope>> \o Addr(sessionKey, byHash) IN
         [access EXCEPT !.Limit.QuotaRemaining =
            IF limQuotaKey \in DOMAIN st.quota
              THEN Remaining(access.Limit.QuotaMax, st.quota[limQuotaKey])
              ELSE access.Limit.QuotaMax]

\* handleGetDetail: the status, the error and the session it answers
handleGetDetail(st, sessionKey, apiID, orgID, byHash) ==
  IF byHash /\ ~cfg.HashKeys
    THEN [code |-> 400, session |-> ZeroSession,
          err |-> "Key requested by hash but key hashing is not enabled"]
  ELSE
  LET d == SessionDetail(st, IF getApiSpecFound(apiID) THEN apisByID[apiID].OrgID
                             ELSE orgID, sessionKey, byHash)
      session == ApplyPolicies(d.session)
      quotaKey == <<"">> \o Addr(d.KeyID, byHash)
      global ==
        IF session.QuotaMax # -1 /\ quotaKey \in DOMAIN st.quota
          THEN [session EXCEPT !.QuotaRemaining =
                  Remaining(session.QuotaMax, st.quota[quotaKey])]
          ELSE session
  IN IF ~d.found
       THEN [code |-> 404, session |-> ZeroSession, err |-> "Key not found"]
       ELSE [code |-> 200, err |-> "",
             session |-> [global EXCEPT !.AccessRights =
                [id \in DOMAIN global.AccessRights |->
                   LimitDetail(st, global.AccessRights[id], d.KeyID, byHash)]]]

\* a listing filter that drops the quota counters only
RECURSIVE SessionKeysOfQuota(_)
SessionKeysOfQuota(listed) ==
  IF listed = <<>> THEN <<>>
  ELSE (IF Head(listed)[1] = QuotaKeyPrefix
          THEN <<>> ELSE <<Head(listed)>>) \o SessionKeysOfQuota(Tail(listed))

\* handleGetAllKeys and handleGetAllOrgKeys: the keys of a listing that are
\* session keys, in the order the store gave them
RECURSIVE SessionKeysOf(_)
SessionKeysOf(listed) ==
  IF listed = <<>> THEN <<>>
  ELSE (IF Head(listed)[1] \in {QuotaKeyPrefix, RateLimitKeyPrefix}
          THEN <<>> ELSE <<Head(listed)>>) \o SessionKeysOf(Tail(listed))

\* handleGetAllKeys, from what the store lists for the filter and for the
\* filter in the encoding of the tokens
handleGetAllKeys(sessions_, orgIDB64Sessions, filter) ==
  [code |-> 200, err |-> "",
   keys |-> SessionKeysOf(IF filter # <<>>
                            THEN sessions_ \o orgIDB64Sessions
                            ELSE sessions_)]

\* getSpecForOrg(""): some API is loaded
getSpecForOrgFound == DOMAIN apisByID # {}

\* handleGetAllOrgKeys, from what the store of the organisations lists
handleGetAllOrgKeys(sessions_) ==
  IF ~getSpecForOrgFound
    THEN [code |-> 404, err |-> "ORG not found", keys |-> <<>>]
    ELSE [code |-> 200, err |-> "", keys |-> SessionKeysOf(sessions_)]

\* a delete that does not look the key up before removing it
handleDeleteKeyNoLookup(st, keyName, orgID, apiID, resetQuota) ==
  LET rm == RemoveSession(st, orgID, keyName, FALSE) IN
  IF ~rm.removed
    THEN Reply(rm.st, 400, "Failed to remove the key", <<>>, "")
    ELSE Reply(rm.st, 200, IF apiID = "-1" THEN "" ELSE "deleted", keyName, "")

handleDeleteKey(st, keyName, orgID, apiID, resetQuota) ==
  LET d == SessionDetail(st, orgID, keyName, FALSE)
      rm == RemoveSession(st, orgID, d.KeyID, FALSE)
  IN IF ~d.found
       THEN Reply(st, 404, "There is no such key found", <<>>, "")
     ELSE IF apiID = "-1"
       THEN LET st2 == ResetQuota(rm.st, d.KeyID, d.session, FALSE) IN
            IF ~rm.removed
              THEN Reply(st2, 400, "Failed to remove the key", <<>>, "")
              ELSE Reply(st2, 200, "", d.KeyID, "")
     ELSE IF ~rm.removed
       THEN Reply(rm.st, 400, "Failed to remove the key", <<>>, "")
     ELSE Reply(IF resetQuota
                  THEN ResetQuota(rm.st, d.KeyID, d.session, FALSE)
                  ELSE rm.st,
                200, "deleted", d.KeyID, "")

handleDeleteHashedKey(st, keyName, orgID, apiID, resetQuota) ==
  LET d == SessionDetail(st, orgID, keyName, TRUE)
      rm == RemoveSession(st, orgID, d.KeyID, TRUE)
  IN IF ~d.found
       THEN Reply(st, 404, "There is no such key found", <<>>, "")
     ELSE IF apiID = "-1"
       THEN IF ~rm.removed
              THEN Reply(rm.st, 400, "Failed to remove the key", <<>>, "")
              ELSE Reply(rm.st, 200, "", d.KeyID, "")
     ELSE IF ~rm.removed
       THEN Reply(rm.st, 400, "Failed to remove the key", <<>>, "")
     ELSE Reply(IF resetQuota
                  THEN ResetQuota(rm.st, d.KeyID, d.session, TRUE)
                  ELSE rm.st,
                200, "deleted", d.KeyID, "")

handleDeleteHashedKeyWithLogs(st, keyName, orgID, apiID, resetQuota) ==
  handleDeleteHashedKey(st, keyName, orgID, apiID, resetQuota)

\* keyGen.GenerateAuthKey: a key identifier from the org and a random secret
GenerateAuthKey(orgID, secret) == generateToken(orgID, <<secret>>)

\* one round of the loop of createKeyHandler over the access rights
CreateForApi(c, newKey, apiID) ==
  IF getApiSpecFound(apiID)
    THEN
      LET s1 == checkAndApplyTrialPeriod(c.st, newKey, c.sess, FALSE) IN
      IF ~apisByID[apiID].DontSetQuotasOnCreate
        THEN applyPoliciesAndSave(
               ResetQuota(c.st, newKey, s1, FALSE), newKey,
               [s1 EXCEPT !.QuotaRenews = now + s1.QuotaRenewalRate], FALSE)
        ELSE applyPoliciesAndSave(c.st, newKey, s1, FALSE)
    ELSE
      \* use fallback
      LET s1 == [c.sess EXCEPT !.QuotaRenews = now + c.sess.QuotaRenewalRate] IN
      [st |-> UpdateSession(ResetQuota(c.st, newKey, s1, FALSE), newKey, s1, FALSE),
       sess |-> s1, err |-> ""]

RECURSIVE CreateForApis(_, _, _)
CreateForApis(c, newKey, ord) ==
  IF ord = <<>> \/ c.err # "" THEN c
  ELSE CreateForApis(CreateForApi(c, newKey, Head(ord)), newKey, Tail(ord))

\* one round of the loop of createKeyHandler over every registered API
CreateForAll(c, newKey, apiID) ==
  LET s1 == checkAndApplyTrialPeriod(c.st, newKey, c.sess, FALSE) IN
  IF ~apisByID[apiID].DontSetQuotasOnCreate
    THEN applyPoliciesAndSave(
           ResetQuota(c.st, newKey, s1, FALSE), newKey,
           [s1 EXCEPT !.QuotaRenews = now + s1.QuotaRenewalRate], FALSE)
    ELSE applyPoliciesAndSave(c.st, newKey, s1, FALSE)

RECURSIVE CreateForAlls(_, _, _)
CreateForAlls(c, newKey, ord) ==
  IF ord = <<>> \/ c.err # "" THEN c
  ELSE CreateForAlls(CreateForAll(c, newKey, Head(ord)), newKey, Tail(ord))

\* createKeyHandler: the key of the new session
createKeyName(payload, secret) ==
  IF payload.Certificate # ""
    THEN generateToken(payload.OrgID, <<payload.Certificate>>)
    ELSE GenerateAuthKey(payload.OrgID, secret)

\* a lookup that never finds the certificate's key
createKeyFoundNever(st, payload, secret) == FALSE

\* createKeyHandler: a session is stored under the key of the certificate
createKeyFound(st, payload, secret) ==
  /\ payload.Certificate # ""
  /\ SessionDetail(st, payload.OrgID, createKeyName(payload, secret), FALSE).found

\* createKeyHandler, after the lookup of the certificate's key
createKeySave(st, payload, secret, ord) ==
  LET newKey == createKeyName(payload, secret)
      s0 == ApplyPolicies([payload EXCEPT !.LastUpdated = now,
                                          !.DateCreated = now])
      c0 == [st |-> st,
             sess |-> [s0 EXCEPT !.AccessRights = resetAPILimits(@)],
             err |-> ""]
      r == IF DOMAIN s0.AccessRights # {}
             THEN CreateForApis(c0, newKey, ord)
             ELSE CreateForAlls(c0, newKey, ord)
  IN IF DOMAIN s0.AccessRights = {} /\ ~cfg.AllowMasterKeys
       THEN Reply(st, 400,
                  "Failed to create key, keys must have at least one Access Rights record set.",
                  <<>>, "")
     ELSE IF r.err # ""
       THEN Reply(r.st, 500, "Failed to create key", <<>>, r.err)
     ELSE Reply(r.st, 200, "added", newKey, "")

createKeyHandler(st, payload, secret, ord) ==
  IF createKeyFound(st, payload, secret)
    THEN Reply(st, 500,
               "Failed to create key - Key with given certificate already found",
               <<>>, "")
    ELSE createKeySave(st, payload, secret, ord)

\* ------------------------------------------------------------- requests
\* the orders in which a map with the key set S can be ranged over
Orders(S) ==
  {o \in [1..Cardinality(S) -> S] : \A i, j \in 1..Cardinality(S) : o[i] = o[j] => i = j}

\* the map that the fan-out of a key with this payload ranges over
FanOut(payload) ==
  IF DOMAIN ApplyPolicies(payload).AccessRights # {}
    THEN DOMAIN ApplyPolicies(payload).AccessRights
    ELSE DOMAIN apisByID

\* a user.APILimit that is set
APILimit(max, renews) ==
  [QuotaMax |-> max, QuotaRenewalRate |-> 1, QuotaRenews |-> renews,
   QuotaRemaining |-> 0]

RightsChoices ==
  { EmptyMap,
    [a \in {"api1"} |-> Access(ZeroLimit, "")],
    [a \in {"api1"} |-> Access(APILimit(2, 0), "s1")],
    [a \in {"api1"} |-> Access(APILimit(4, 8), "s1")],
    [a \in {"api2"} |-> Access(ZeroLimit, "")],
    [a \in {"apiX"} |-> Access(ZeroLimit, "")],
    [a \in {"api1", "api2"} |->
       IF a = "api1" THEN Access(APILimit(4, 8), "s1") ELSE Access(ZeroLimit, "")],
    [a \in {"api1", "apiX"} |->
       IF a = "api1" THEN Access(APILimit(2, 0), "s1") ELSE Access(ZeroLimit, "")] }

Payload(rights, pols, expires) ==
  [OrgID |-> Org, AccessRights |-> rights, ApplyPolicies |-> pols,
   QuotaMax |-> 2, QuotaRenewalRate |-> 1, QuotaRenews |-> 8,
   QuotaRemaining |-> 0, LastUpdated |-> 8, DateCreated |-> 8, Expires |-> expires,
   Certificate |-> "", BasicAuthData |-> [Password |-> <<>>, Hash |-> ""]]

Payloads ==
  {Payload(r, <<>>, 0) : r \in RightsChoices} \cup
  {Payload(r, <<"p1">>, 0) :
     r \in {x \in RightsChoices :
              /\ Cardinality(DOMAIN x) <= 1
              /\ \A a \in DOMAIN x : a = "api1" => x[a].Limit = APILimit(4, 8)}} \cup
  {Payload([a \in {"api1"} |-> Access(ZeroLimit, "")], p, e) :
     p \in {<<>>, <<"p1">>}, e \in {1, 2, 9}}

CustomNames == {<<"k1">>}

Secrets == {"g1"}

\* the names a key is asked for by: its token, its custom name, its address
Tokens ==
  {generateToken(Org, n) : n \in CustomNames} \cup
  {GenerateAuthKey(Org, s) : s \in Secrets}

NoReq ==
  [op |-> "none", keyName |-> <<>>, user |-> FALSE, hashed |-> FALSE,
   suppress |-> FALSE, apiID |-> "", payload |-> ZeroSession, secret |-> "",
   filter |-> <<>>, listed |-> <<>>]

NoResp ==
  [op |-> "none", code |-> 0, msg |-> "", key |-> <<>>, err |-> "",
   hashed |-> FALSE, suppress |-> FALSE, apiID |-> "", obj |-> <<>>]

Response(r) ==
  [op |-> req.op, code |-> r.code, msg |-> r.msg, key |-> r.key, err |-> r.err,
   hashed |-> req.hashed, suppress |-> req.suppress, apiID |-> req.apiID,
   obj |-> <<>>]

Store == [sessions |-> sessions, quota |-> quota]

\* the ways a request names a key: by token, by custom name (username=true),
\* by store address (hashed), or by a bare custom name
Namings ==
  {[name |-> t, user |-> FALSE, hashed |-> FALSE] : t \in Tokens} \cup
  {[name |-> n, user |-> u, hashed |-> FALSE] : n \in CustomNames, u \in BOOLEAN} \cup
  {[name |-> HashKey(generateToken(Org, n), cfg.HashKeys), user |-> FALSE,
    hashed |-> TRUE] : n \in CustomNames}

Requests ==
  {[NoReq EXCEPT !.op = "POST", !.keyName = n, !.payload = p] :
     n \in CustomNames, p \in Payloads} \cup
  {[NoReq EXCEPT !.op = "PUT", !.keyName = k.name, !.user = k.user,
                 !.hashed = k.hashed, !.suppress = s, !.payload = p] :
     k \in Namings, s \in BOOLEAN, p \in Payloads} \cup
  {[NoReq EXCEPT !.op = "DELETE", !.keyName = k.name, !.user = k.user,
                 !.hashed = k.hashed, !.apiID = a] :
     k \in Namings, a \in {"-1", "api1"}} \cup
  {[NoReq EXCEPT !.op = "CREATE", !.payload = p, !.secret = g] :
     p \in Payloads, g \in Secrets}

\* the configurations: every pair of settings occurs in one of them
Configs ==
  {c \in [HashKeys : BOOLEAN, HashKeyFunction : BOOLEAN,
          AllowMasterKeys : BOOLEAN] :
     c.AllowMasterKeys = (c.HashKeys # c.HashKeyFunction)}

Init ==
  /\ sessions = EmptyMap
  /\ quota = EmptyMap
  /\ now = 3
  /\ cfg \in Configs
  /\ ops = 0
  /\ req = NoReq
  /\ resp = NoResp
  /\ inflight = EmptyMap
  /\ NoClients
  /\ ReloadIdle
  /\ RegistryIdle

\* an admin request arrives
Receive(r) ==
  /\ req = NoReq
  /\ ops < MaxOps
  /\ r.op = "CREATE" =>
       \* the random secret is one no key was generated from
       Addr(GenerateAuthKey(r.payload.OrgID, r.secret), FALSE) \notin DOMAIN sessions
  /\ req' = r
  /\ resp' = NoResp
  /\ UNCHANGED <<sessions, quota, now, cfg, ops, inflight>>
  /\ UNCHANGED <<oauthVars, reloadVars, registryVars>>

Served(r) ==
  /\ ops' = ops + 1
  /\ sessions' = r.st.sessions
  /\ quota' = r.st.quota
  /\ resp' = Response(r)
  /\ req' = NoReq
  /\ UNCHANGED <<now, cfg, inflight>>
  /\ UNCHANGED <<oauthVars, reloadVars, registryVars>>

\* keyHandler, POST /keys/{keyName}
KeyPost(ord) ==
  /\ req.op = "POST"
  /\ Served(handleAddOrUpdate(Store, req.keyName, req.payload, "POST",
                              req.hashed, req.suppress, ord))

\* keyHandler, PUT /keys/{keyName}
KeyPutResult(st, origKeyName, isUserName, payload, isHashed, suppress, ord, ord2) ==
  LET keyName == IF isUserName THEN generateToken(Org, origKeyName)
                               ELSE origKeyName
      r1 == handleAddOrUpdate(st, keyName, payload, "PUT", isHashed,
                              suppress, ord)
  IN IF r1.code # 200 /\ cfg.HashKeyFunction
       THEN handleAddOrUpdate(r1.st, origKeyName, payload, "PUT", isHashed,
                              suppress, ord2)
       ELSE r1

KeyPut(ord, ord2) ==
  /\ req.op = "PUT"
  /\ Served(KeyPutResult(Store, req.keyName, req.user, req.payload, req.hashed,
                         req.suppress, ord, ord2))

\* a keyHandler that tries the legacy name before the current one
KeyDeleteResultLegacyFirst(st, origKeyName, isUserName, isHashed, apiID) ==
  LET keyName == IF isUserName THEN generateToken(Org, origKeyName)
                               ELSE origKeyName
      r1 == IF ~isHashed
              THEN handleDeleteKey(st, origKeyName, Org, apiID, TRUE)
              ELSE handleDeleteHashedKeyWithLogs(st, origKeyName, Org, apiID, TRUE)
  IN IF r1.code # 200 /\ cfg.HashKeyFunction
       THEN IF ~isHashed
              THEN handleDeleteKey(r1.st, keyName, Org, apiID, TRUE)
              ELSE handleDeleteHashedKeyWithLogs(r1.st, keyName, Org, apiID, TRUE)
       ELSE r1

\* keyHandler, DELETE /keys/{keyName}
KeyDeleteResult(st, origKeyName, isUserName, isHashed, apiID) ==
  LET keyName == IF isUserName THEN generateToken(Org, origKeyName)
                               ELSE origKeyName
      r1 == IF ~isHashed
              THEN handleDeleteKey(st, keyName, Org, apiID, TRUE)
              ELSE handleDeleteHashedKeyWithLogs(st, keyName, Org, apiID, TRUE)
  IN IF r1.code # 200 /\ cfg.HashKeyFunction
       THEN IF ~isHashed
              THEN handleDeleteKey(r1.st, origKeyName, Org, apiID, TRUE)
              ELSE handleDeleteHashedKeyWithLogs(r1.st, origKeyName, Org, apiID, TRUE)
       ELSE r1

KeyDelete ==
  /\ req.op = "DELETE"
  /\ Served(KeyDeleteResult(Store, req.keyName, req.user, req.hashed, req.apiID))

\* POST /keys/create
CreateKey(ord) ==
  /\ req.op = "CREATE"
  /\ Served(createKeyHandler(Store, req.payload, req.secret, ord))

\* the requests counted by all the counters of the store
RECURSIVE Used(_)
Used(q) ==
  IF DOMAIN q = {} THEN 0
  ELSE LET k == CHOOSE x \in DOMAIN q : TRUE IN q[k] + Used(Del(q, k))

\* the request-time limiter counts one request against a quota scope of a key
UseQuota(a, scope) ==
  /\ req = NoReq
  /\ ops < MaxOps
  /\ a \in DOMAIN sessions
  /\ scope \in {""} \cup
       {sessions[a].AccessRights[i].AllowanceScope : i \in DOMAIN sessions[a].AccessRights}
  /\ Used(quota) < MaxUse
  /\ quota' = Put(quota, <<scope>> \o a,
                  IF <<scope>> \o a \in DOMAIN quota
                    THEN quota[<<scope>> \o a] + 1 ELSE 1)
  /\ resp' = NoResp
  /\ UNCHANGED <<sessions, now, cfg, ops, req, inflight>>
  /\ UNCHANGED <<oauthVars, reloadVars, registryVars>>

\* time passes between two requests (it is counted from the first request)
Tick ==
  /\ req = NoReq
  /\ 0 < ops /\ ops < MaxOps
  /\ now < MaxTime
  /\ now' = now + 1
  /\ resp' = NoResp
  /\ UNCHANGED <<sessions, quota, cfg, ops, req, inflight>>
  /\ UNCHANGED <<oauthVars, reloadVars, registryVars>>

Next ==
  \/ \E r \in Requests : Receive(r)
  \/ \E ord \in Orders(FanOut(req.payload)) : KeyPost(ord)
  \/ \E ord \in Orders(FanOut(req.payload)), ord2 \in Orders(FanOut(req.payload)) :
       KeyPut(ord, ord2)
  \/ KeyDelete
  \/ \E ord \in Orders(FanOut(req.payload)) : CreateKey(ord)
  \/ \E a \in DOMAIN sessions, scope \in {"", "s1"} : UseQuota(a, scope)
  \/ Tick

Spec == Init /\ [][Next]_vars

\* ------------------------------------------------- reading a key back
\* a store that holds one key, whose usage the limiter records while the
\* key is fetched

MaxCount == 3

Limit(max, remaining) ==
  [QuotaMax |-> max, QuotaRenewalRate |-> 1, QuotaRenews |-> 0,
   QuotaRemaining |-> remaining]

FetchRights ==
  {EmptyMap,
   [a \in {"api1"} |-> Access(Limit(2, 0), "s1")],
   [a \in {"api1"} |-> Access(Limit(2, 1), "")],
   [a \in {"api1"} |-> Access(Limit(-1, 1), "s1")],
   [a \in {"api1"} |-> Access(Limit(0, 1), "s1")],
   [a \in {"api1"} |-> Access(ZeroLimit, "s1")],
   [a \in {"api1", "api2"} |->
      Access(Limit(2, 0), IF a = "api1" THEN "s1" ELSE "s2")],
   [a \in {"api1", "api2"} |-> Access(Limit(2, 0), "s1")]}

FetchSession(max, remaining, rights, pols) ==
  [ZeroSession EXCEPT !.OrgID = Org, !.QuotaMax = max, !.QuotaRenewalRate = 1,
                      !.QuotaRemaining = remaining, !.AccessRights = rights,
                      !.ApplyPolicies = pols]

FetchSessions ==
  {FetchSession(q[1], q[2], rights, <<>>) :
     q \in {<<2, 0>>, <<2, 1>>, <<-1, 1>>}, rights \in FetchRights} \cup
  {FetchSession(2, 0, EmptyMap, <<"p1">>)}

FetchKey == generateToken(Org, <<"k1">>)

FetchInit ==
  /\ cfg \in Configs
  /\ \E s \in FetchSessions : sessions = Put(EmptyMap, Addr(FetchKey, FALSE), s)
  /\ quota = EmptyMap
  /\ now = 3
  /\ ops = 0
  /\ req = NoReq
  /\ resp = NoResp
  /\ inflight = EmptyMap
  /\ NoClients
  /\ ReloadIdle
  /\ RegistryIdle

FetchRequests ==
  {[NoReq EXCEPT !.op = "GET", !.keyName = k.name, !.user = k.user,
                 !.hashed = k.hashed, !.apiID = a] :
     k \in Namings, a \in {"", "api1"}}

\* the quota scopes of a stored key: its own and one per allowance scope
Scopes(a) ==
  {""} \cup {ApplyPolicies(sessions[a]).AccessRights[i].AllowanceScope :
               i \in DOMAIN ApplyPolicies(sessions[a]).AccessRights}

\* the limiter counts a request against one quota scope of a key
RecordUse(a, scope) ==
  /\ req = NoReq
  /\ a \in DOMAIN sessions
  /\ scope \in Scopes(a)
  /\ <<scope>> \o a \in DOMAIN quota => quota[<<scope>> \o a] < MaxCount
  /\ quota' = Put(quota, <<scope>> \o a,
                  IF <<scope>> \o a \in DOMAIN quota
                    THEN quota[<<scope>> \o a] + 1 ELSE 1)
  /\ resp' = NoResp
  /\ UNCHANGED <<sessions, now, cfg, ops, req, inflight>>
  /\ UNCHANGED <<oauthVars, reloadVars, registryVars>>

\* keyHandler, GET /keys/{keyName}
KeyGetResult(st, origKeyName, isUserName, isHashed, apiID) ==
  LET keyName == IF isUserName THEN generateToken(Org, origKeyName)
                               ELSE origKeyName
      r1 == handleGetDetail(st, keyName, apiID, Org, isHashed)
  IN IF r1.code # 200 /\ cfg.HashKeyFunction
       THEN handleGetDetail(st, origKeyName, apiID, Org, isHashed)
       ELSE r1

KeyGet ==
  /\ req.op = "GET"
  /\ LET r == KeyGetResult(Store, req.keyName, req.user, req.hashed, req.apiID) IN
     resp' = [NoResp EXCEPT !.op = "GET", !.code = r.code, !.err = r.err,
                            !.hashed = req.hashed, !.apiID = req.apiID,
                            !.obj = r.session]
  /\ req' = NoReq
  /\ UNCHANGED <<sessions, quota, now, cfg, ops, inflight>>
  /\ UNCHANGED <<oauthVars, reloadVars, registryVars>>

FetchNext ==
  \/ \E r \in FetchRequests : Receive(r)
  \/ KeyGet
  \/ \E a \in DOMAIN sessions, scope \in {"", "s1", "s2"} : RecordUse(a, scope)

FetchSpec == FetchInit /\ [][FetchNext]_vars

\* ---------------------------------------------------- listing the keys
\* a store that holds session keys beside the counters of the limiter

\* the flat namespace of the store: session keys, quota counters and
\* rate-limit counters
Namespace(st) ==
  DOMAIN st.sessions \cup
  {<<QuotaKeyPrefix>> \o k : k \in DOMAIN st.quota} \cup
  {<<RateLimitKeyPrefix>> \o a : a \in DOMAIN st.sessions}

IsPrefix(f, k) == Len(f) <= Len(k) /\ \A i \in 1..Len(f) : k[i] = f[i]

\* the sequences that hold each element of S once
RECURSIVE Listings(_)
Listings(S) ==
  IF S = {} THEN {<<>>}
  ELSE UNION {{<<x>> \o l : l \in Listings(S \ {x})} : x \in S}

\* SessionStore.list: the keys under a filter, in some order
Sessions(st, filter) == Listings({k \in Namespace(st) : IsPrefix(filter, k)})

\* the filter of an organisation in the encoding of its tokens
FilterB64(filter) == <<"tok">> \o filter

\* the keys of the store of the organisations, its counters included
OrgNamespace ==
  {<<Org>>, <<QuotaKeyPrefix, Org>>, <<RateLimitKeyPrefix, Org>>}

ListConfigs ==
  {c \in [HashKeys : BOOLEAN, HashKeyFunction : BOOLEAN,
          AllowMasterKeys : BOOLEAN, EnableHashedKeysListing : BOOLEAN] :
     c.AllowMasterKeys = (c.HashKeys # c.HashKeyFunction)}

ListInit ==
  /\ cfg \in ListConfigs
  /\ \E legacy \in BOOLEAN :
       sessions = [a \in {Addr(FetchKey, FALSE)} \cup
                          (IF legacy THEN {Addr(<<"k1">>, FALSE)} ELSE {}) |->
                     FetchSession(2, 0, EmptyMap, <<>>)]
  /\ \E scopes \in SUBSET {"", "s1"} :
       quota = [k \in {<<s>> \o Addr(FetchKey, FALSE) : s \in scopes} |-> 1]
  /\ now = 3
  /\ ops = 0
  /\ req = NoReq
  /\ resp = NoResp
  /\ inflight = EmptyMap
  /\ NoClients
  /\ ReloadIdle
  /\ RegistryIdle

\* keyHandler: no filter is used when the keys are hashed
ListFilter(filter) == IF cfg.HashKeys THEN <<>> ELSE filter

\* the listings asked for, each with what the store answers for it
ListRequests ==
  UNION {{[NoReq EXCEPT !.op = "LIST", !.filter = f, !.listed = <<o, b>>] :
            o \in Sessions(Store, ListFilter(f)),
            b \in Sessions(Store, FilterB64(<<Org>>))} :
         f \in {<<>>, <<Org>>}} \cup
  {[NoReq EXCEPT !.op = "ORGLIST", !.filter = f, !.listed = <<o>>] :
     f \in {<<>>, <<Org>>},
     o \in UNION {Listings(S) : S \in SUBSET OrgNamespace}}

ListResponse(r) ==
  [NoResp EXCEPT !.op = req.op, !.code = r.code, !.err = r.err, !.obj = r.keys]

\* keyHandler, GET /keys
KeyList ==
  /\ req.op = "LIST"
  /\ resp' = ListResponse(
       IF cfg.HashKeys
         THEN IF ~cfg.EnableHashedKeysListing
                THEN [code |-> 404, keys |-> <<>>,
                      err |-> "Hashed key listing is disabled in config (enable_hashed_keys_listing)"]
                ELSE handleGetAllKeys(req.listed[1], req.listed[2], <<>>)
         ELSE handleGetAllKeys(req.listed[1], req.listed[2], req.filter))
  /\ req' = NoReq
  /\ UNCHANGED <<sessions, quota, now, cfg, ops, inflight>>
  /\ UNCHANGED <<oauthVars, reloadVars, registryVars>>

\* orgHandler, GET /org/keys
OrgKeyList ==
  /\ req.op = "ORGLIST"
  /\ resp' = ListResponse(handleGetAllOrgKeys(req.listed[1]))
  /\ req' = NoReq
  /\ UNCHANGED <<sessions, quota, now, cfg, ops, inflight>>
  /\ UNCHANGED <<oauthVars, reloadVars, registryVars>>

ListNext ==
  \/ req = NoReq /\ \E r \in ListRequests : Receive(r)
  \/ KeyList
  \/ OrgKeyList

ListSpec == ListInit /\ [][ListNext]_vars

\* ------------------------------------------ keys that refer to policies
\* keys created with one or two policies that name the same API

PolicyLists == {<<>>, <<"p1">>, <<"p2">>, <<"p1", "p2">>, <<"p2", "p1">>}

PolicyRights ==
  {EmptyMap,
   [a \in {"api1"} |-> Access(APILimit(2, 0), "s1")],
   [a \in {"api2"} |-> Access(ZeroLimit, "")],
   [a \in {"api1", "api2"} |->
      IF a = "api1" THEN Access(ZeroLimit, "") ELSE Access(APILimit(2, 0), "s1")],
   [a \in {"api1"} |-> Access([ZeroLimit EXCEPT !.QuotaRenews = 8], "")]}

PolicyRequests ==
  {[NoReq EXCEPT !.op = "POST", !.keyName = n,
                 !.payload = Payload(rights, pols, 0)] :
     n \in CustomNames, rights \in PolicyRights, pols \in PolicyLists} \cup
  {[NoReq EXCEPT !.op = "CREATE", !.secret = g,
                 !.payload = Payload(rights, pols, 0)] :
     g \in Secrets, rights \in PolicyRights, pols \in PolicyLists}

PolicyNext ==
  \/ \E r \in PolicyRequests : Receive(r)
  \/ \E ord \in Orders(FanOut(req.payload)) : KeyPost(ord)
  \/ \E ord \in Orders(FanOut(req.payload)) : CreateKey(ord)

PolicySpec == Init /\ [][PolicyNext]_vars

\* ----------------------------------------------- keys with certificates
\* keys created for a certificate by requests that run at the same time,
\* and updates that change the certificate of a key

MaxProcs == 2

Procs == 1..MaxProcs

CertPayload(cert) ==
  [Payload([a \in {"api1"} |-> Access(ZeroLimit, "")], <<>>, 0)
     EXCEPT !.Certificate = cert]

CertRequests ==
  {[NoReq EXCEPT !.op = "POST", !.keyName = n, !.payload = CertPayload(c)] :
     n \in CustomNames, c \in {"", "cX"}} \cup
  {[NoReq EXCEPT !.op = "PUT", !.keyName = k, !.payload = CertPayload(c)] :
     k \in {generateToken(Org, n) : n \in CustomNames \cup {<<"c1">>, <<"cX">>}},
     c \in {"", "c1", "c2", "cX"}}

\* createKeyHandler up to the lookup of the certificate's key: the request
\* is answered when a session is found, and goes on otherwise
CertBegin(p, cert) ==
  /\ req = NoReq
  /\ p \notin DOMAIN inflight
  /\ inflight' = Put(inflight, p,
       IF createKeyFound(Store, CertPayload(cert), "")
         THEN [payload |-> CertPayload(cert), pc |-> "done", code |-> 500,
               key |-> <<>>,
               after |-> {q \in DOMAIN inflight : inflight[q].pc = "done"}]
         ELSE [payload |-> CertPayload(cert), pc |-> "checked", code |-> 0,
               key |-> <<>>,
               after |-> {q \in DOMAIN inflight : inflight[q].pc = "done"}])
  /\ resp' = NoResp
  /\ UNCHANGED <<sessions, quota, now, cfg, ops, req>>
  /\ UNCHANGED <<oauthVars, reloadVars, registryVars>>

\* createKeyHandler from the lookup on: the key is saved and answered
CertFinish(p, ord) ==
  /\ req = NoReq
  /\ p \in DOMAIN inflight
  /\ inflight[p].pc = "checked"
  /\ LET r == createKeySave(Store, inflight[p].payload, "", ord) IN
       /\ sessions' = r.st.sessions
       /\ quota' = r.st.quota
       /\ inflight' = [inflight EXCEPT ![p].pc = "done", ![p].code = r.code,
                                       ![p].key = r.key]
  /\ resp' = NoResp
  /\ UNCHANGED <<now, cfg, ops, req>>
  /\ UNCHANGED <<oauthVars, reloadVars, registryVars>>

CertNext ==
  \/ \E r \in CertRequests : Receive(r)
  \/ \E ord \in Orders(FanOut(req.payload)) : KeyPost(ord)
  \/ \E ord \in Orders(FanOut(req.payload)), ord2 \in Orders(FanOut(req.payload)) :
       KeyPut(ord, ord2)
  \/ \E p \in Procs, cert \in {"c1", "cX"} : CertBegin(p, cert)
  \/ \E p \in DOMAIN inflight : \E ord \in Orders(FanOut(inflight[p].payload)) :
       CertFinish(p, ord)

CertSpec == Init /\ [][CertNext]_vars

\* ------------------------------------------------------------ properties
\* the key name keyHandler hands to the handlers of PUT and DELETE
KeyNameOf(r) == IF r.user THEN generateToken(Org, r.keyName) ELSE r.keyName

\* the key of the request has no session, under the name asked for and
\* under its legacy name
Unknown(r) ==
  /\ Addr(KeyNameOf(r), r.hashed) \notin DOMAIN sessions
  /\ Addr(r.keyName, r.hashed) \notin DOMAIN sessions

\* the step that answers the pending request of this kind
Serves(op) == req.op = op /\ req' = NoReq

\* the access rights of the session once its policies are applied
Effective(payload) == ApplyPolicies(payload).AccessRights

\* C1: a PUT for a key that has no session answers 404 "Key is not found"
\* and leaves every session record and every quota counter as it was, the
\* legacy retry of keyHandler included
C1_Step ==
  (Serves("PUT") /\ Unknown(req))
    => /\ resp'.code = 404
       /\ resp'.msg = "Key is not found"
       /\ sessions' = sessions
       /\ quota' = quota

C1_PutUnknownKey == [][C1_Step]_vars

\* a PUT was answered 404 after the legacy retry, the store holding a key
\* and a counter
C1_Witness ==
  /\ resp.op = "PUT" /\ resp.code = 404 /\ resp.msg = "Key is not found"
  /\ cfg.HashKeyFunction
  /\ sessions # EmptyMap /\ quota # EmptyMap

\* the address of the key that a PUT or DELETE request names
Named(r) == Addr(KeyNameOf(r), r.hashed)

\* C2: a successful PUT with suppress_reset=1 stores the QuotaRenews and the
\* LastUpdated that the session had before it, whatever the payload carries,
\* and leaves the usage counters of the key as they were
C2_Step ==
  (Serves("PUT") /\ req.suppress /\ resp'.code = 200)
    => /\ Named(req) \in DOMAIN sessions
       /\ Named(req) \in DOMAIN sessions'
       /\ Addr(resp'.key, req.hashed) = Named(req)
       /\ sessions'[Named(req)].QuotaRenews = sessions[Named(req)].QuotaRenews
       /\ sessions'[Named(req)].LastUpdated = sessions[Named(req)].LastUpdated
       /\ \A k \in DOMAIN quota :
            Tail(k) = Named(req) => k \in DOMAIN quota' /\ quota'[k] = quota[k]

C2_SuppressResetKeepsRenewal == [][C2_Step]_vars

\* a PUT with suppress_reset=1 succeeded at a time when a reset would have
\* stored other values, on a key with a counted request
C2_Witness ==
  /\ resp.op = "PUT" /\ resp.suppress /\ resp.code = 200
  /\ LET a == Addr(resp.key, resp.hashed) IN
       /\ a \in DOMAIN sessions
       /\ sessions[a].LastUpdated < now
       /\ sessions[a].QuotaRenews < now + sessions[a].QuotaRenewalRate
       /\ <<"">> \o a \in DOMAIN quota

\* the APIs that the policies of the session name
PolicyAPIs(payload) ==
  UNION {DOMAIN policiesByID[payload.ApplyPolicies[i]].AccessRights :
           i \in {j \in DOMAIN payload.ApplyPolicies :
                    payload.ApplyPolicies[j] \in DOMAIN policiesByID}}

\* the access right of the API keeps the renewal of its limit over the step
KeepsRenews(a, api) ==
  /\ api \in DOMAIN sessions'[a].AccessRights
  /\ sessions'[a].AccessRights[api].Limit.QuotaRenews =
       sessions[a].AccessRights[api].Limit.QuotaRenews

\* C3 as the spec states it: after a successful PUT with suppress_reset=1
\* every access right whose limit was non-empty before keeps the QuotaRenews
\* of that limit
C3_OriginalStep ==
  (Serves("PUT") /\ req.suppress /\ resp'.code = 200)
    => \A api \in DOMAIN sessions[Named(req)].AccessRights :
         ~IsEmpty(sessions[Named(req)].AccessRights[api].Limit)
           => KeepsRenews(Named(req), api)

C3_Step ==
  (Serves("PUT") /\ req.suppress /\ resp'.code = 200)
    => \A api \in DOMAIN sessions[Named(req)].AccessRights :
         (/\ ~IsEmpty(sessions[Named(req)].AccessRights[api].Limit)
          /\ api \in DOMAIN req.payload.AccessRights
          /\ ~IsEmpty(req.payload.AccessRights[api].Limit)
          /\ api \notin PolicyAPIs(req.payload))
           => KeepsRenews(Named(req), api)

C4_Step ==
  Serves("PUT")
    => /\ \A a \in DOMAIN sessions \cap DOMAIN sessions' :
            sessions'[a].DateCreated = sessions[a].DateCreated
       /\ resp'.code = 200 => Named(req) \in DOMAIN sessions \cap DOMAIN sessions'

C4_DateCreatedImmutable == [][C4_Step]_vars

\* a PUT succeeded on a key created at an earlier time
C4_Witness ==
  /\ resp.op = "PUT" /\ resp.code = 200
  /\ LET a == Addr(resp.key, resp.hashed) IN
       /\ a \in DOMAIN sessions
       /\ sessions[a].DateCreated < now
       /\ sessions[a].LastUpdated = now

\* C5 as the spec states it, for a payload Expires in the past: a
\* successful PUT whose payload Expires is non-zero and earlier than now
\* stores the Expires the session had before
C5_OriginalStep ==
  (/\ Serves("PUT") /\ resp'.code = 200
   /\ req.payload.Expires # 0 /\ req.payload.Expires < now)
    => /\ Named(req) \in DOMAIN sessions \cap DOMAIN sessions'
       /\ sessions'[Named(req)].Expires = sessions[Named(req)].Expires

C5_Original == [][C5_OriginalStep]_vars

\* the step answers a request that creates or updates a key
ServesWrite == Serves("POST") \/ Serves("PUT") \/ Serves("CREATE")

\* the session refers to an API that is not registered
AbsentAPI(payload) ==
  \E a \in DOMAIN Effective(payload) : ~getApiSpecFound(a)

\* C6 as the spec states it: a create or update whose access rights name an
\* API absent from the registry fails, through doAddOrUpdate and through
\* createKeyHandler alike
C6_OriginalStep ==
  (ServesWrite /\ AbsentAPI(req.payload)) => resp'.code # 200

C6_Step ==
  AbsentAPI(req.payload) =>
    /\ Serves("POST") =>
         /\ resp'.code = 500
         /\ resp'.err = "API must be active to add keys"
    /\ Serves("PUT") =>
         /\ resp'.code # 200
         /\ (Named(req) \in DOMAIN sessions /\ ~(req.user /\ cfg.HashKeyFunction))
              => /\ resp'.code = 500
                 /\ resp'.msg =
                      "Failed to create key, ensure security settings are correct."
                 /\ resp'.err = "API must be active to add keys"
    /\ Serves("CREATE") =>
         /\ resp'.code = 200
         /\ Addr(resp'.key, FALSE) \in DOMAIN sessions'

C7_Step ==
  (ServesWrite /\ DOMAIN Effective(req.payload) = {})
    => IF cfg.AllowMasterKeys
         THEN \/ req.op = "PUT" /\ Named(req) \notin DOMAIN sessions
              \/ /\ resp'.code = 200
                 /\ Addr(resp'.key, req.hashed) \in DOMAIN sessions'
                 /\ sessions'[Addr(resp'.key, req.hashed)].AccessRights = EmptyMap
         ELSE /\ resp'.code # 200
              /\ sessions' = sessions
              /\ quota' = quota

C7_MasterKeys == [][C7_Step]_vars

\* an update without access rights was rejected for a stored key with a
\* counted request
C7_Witness ==
  /\ resp.op = "PUT" /\ resp.code = 500
  /\ resp.err = "Master keys not allowed"
  /\ sessions # EmptyMap /\ quota # EmptyMap

\* the trial periods of the policies the session refers to
TrialPeriods(payload) ==
  {policiesByID[payload.ApplyPolicies[i]].KeyExpiresIn :
     i \in {j \in DOMAIN payload.ApplyPolicies :
              /\ payload.ApplyPolicies[j] \in DOMAIN policiesByID
              /\ policiesByID[payload.ApplyPolicies[j]].KeyExpiresIn > 0}}

\* C8 as the spec states it: a successful create whose session refers to a
\* policy with KeyExpiresIn > 0 stores Expires = now + KeyExpiresIn when the
\* name had no session, and the Expires of the request after the expiry
\* correction when it had one
C8_OriginalStep ==
  (/\ Serves("POST") \/ Serves("CREATE")
   /\ resp'.code = 200
   /\ TrialPeriods(req.payload) # {})
    => LET a == Addr(resp'.key, FALSE) IN
       /\ a \in DOMAIN sessions'
       /\ IF a \notin DOMAIN sessions
            THEN \E t \in TrialPeriods(req.payload) :
                   sessions'[a].Expires = now + t
            ELSE sessions'[a].Expires =
                   FixExpires(req.payload, ZeroSession).Expires

C8_Original == [][C8_OriginalStep]_vars

\* C9: a DELETE for a key that has no session answers 404 and leaves the
\* store as it was, plain or hashed, for one API or for all
C9_Step ==
  (Serves("DELETE") /\ Unknown(req))
    => /\ resp'.code = 404
       /\ sessions' = sessions
       /\ quota' = quota

C9_DeleteUnknownKey == [][C9_Step]_vars

\* a hashed DELETE for all APIs was answered 404 after the legacy retry,
\* the store holding another key
C9_Witness ==
  /\ resp.op = "DELETE" /\ resp.code = 404
  /\ resp.hashed /\ resp.apiID = "-1"
  /\ cfg.HashKeyFunction
  /\ sessions # EmptyMap

\* C10 as the spec states it: after a successful DELETE for all APIs the
\* store holds neither the session of the key nor its usage counter, plain
\* or hashed
C10_OriginalStep ==
  (Serves("DELETE") /\ req.apiID = "-1" /\ resp'.code = 200)
    => /\ Named(req) \notin DOMAIN sessions'
       /\ <<"">> \o Named(req) \notin DOMAIN quota'

C10_Original == [][C10_OriginalStep]_vars

\* what GET /keys/{keyName} answers from the store the step leaves
FetchAfter(keyName, byHash) ==
  handleGetDetail([sessions |-> sessions', quota |-> quota'], keyName, "", Org,
                  byHash)

\* the step answers a create, or an update without suppress_reset, with
\* success, for a session that names an API that sets quotas on create
\* (a session without access rights covers every API)
ResetsQuota ==
  /\ \/ Serves("POST") \/ Serves("CREATE")
     \/ Serves("PUT") /\ ~req.suppress
  /\ resp'.code = 200
  /\ \/ DOMAIN Effective(req.payload) = {}
     \/ \E a \in DOMAIN Effective(req.payload) :
          getApiSpecFound(a) /\ ~apisByID[a].DontSetQuotasOnCreate

\* the stored side of C11: the key's counters are back to zero usage, its
\* renewal is one period from now, and a create answers "added" with the key
C11_StoredStep ==
  ResetsQuota =>
    LET a == Addr(resp'.key, req.hashed) IN
    /\ a \in DOMAIN sessions'
    /\ \A q \in QuotaKeys(resp'.key, sessions'[a], req.hashed) :
         q \notin DOMAIN quota'
    /\ sessions'[a].QuotaRenews = now + sessions'[a].QuotaRenewalRate
    /\ req.op \in {"POST", "CREATE"} => resp'.msg = "added" /\ resp'.key # <<>>

\* C11 as the spec states it: after a key is created, or updated without
\* suppress_reset, against an existing API that does not suppress
\* quota-on-create, the stored usage is zero, a fetch of the key reports
\* remaining = QuotaMax, the stored QuotaRenews is now + QuotaRenewalRate,
\* and a create answers "added" with the key
C11_OriginalStep ==
  /\ C11_StoredStep
  /\ ResetsQuota =>
       LET f == FetchAfter(resp'.key, req.hashed) IN
       /\ f.code = 200
       /\ f.session.QuotaRemaining = f.session.QuotaMax
       /\ \A i \in DOMAIN f.session.AccessRights :
            f.session.AccessRights[i].Limit.QuotaRemaining =
              f.session.AccessRights[i].Limit.QuotaMax

C11_Original == [][C11_OriginalStep]_vars

C11_Stored == [][C11_StoredStep]_vars

\* the store address of the key that is read back
FetchAddr == Addr(FetchKey, FALSE)

\* the stored session of that key with its policies applied
Fetched == ApplyPolicies(sessions[FetchAddr])

\* the counter of a quota scope of that key
CounterKey(scope) == <<scope>> \o FetchAddr

\* the step answers a GET with the session of the key
ServesFetch == Serves("GET") /\ resp'.code = 200

Max0(x) == IF x > 0 THEN x ELSE 0

\* C12 as the spec states it, for the counters the store holds: for the
\* global quota and for every per-API limit whose QuotaMax is not -1 the
\* fetched remaining is max(0, QuotaMax - counter) and never negative
C12_OriginalStep ==
  ServesFetch =>
    /\ (Fetched.QuotaMax # -1 /\ CounterKey("") \in DOMAIN quota) =>
         resp'.obj.QuotaRemaining = Max0(Fetched.QuotaMax - quota[CounterKey("")])
    /\ \A i \in DOMAIN Fetched.AccessRights :
         LET access == Fetched.AccessRights[i]
             k == CounterKey(access.AllowanceScope)
         IN (access.Limit.QuotaMax # -1 /\ k \in DOMAIN quota) =>
              resp'.obj.AccessRights[i].Limit.QuotaRemaining =
                Max0(access.Limit.QuotaMax - quota[k])

C12_Original == [][C12_OriginalStep]_vars

\* C12: for the global quota when QuotaMax is not -1, and for every per-API
\* limit that is not empty and whose QuotaMax is neither -1 nor 0, a fetch
\* reports remaining = max(0, QuotaMax - counter) from the counter the store
\* holds, never a negative value; when the global QuotaMax is -1, and for a
\* per-API limit that is empty or has QuotaMax -1 or 0, no counter is read
\* and the remaining allowance is answered as it is stored
C12_Step ==
  ServesFetch =>
    /\ (Fetched.QuotaMax # -1 /\ CounterKey("") \in DOMAIN quota) =>
         /\ resp'.obj.QuotaRemaining = Max0(Fetched.QuotaMax - quota[CounterKey("")])
         /\ resp'.obj.QuotaRemaining >= 0
    /\ Fetched.QuotaMax = -1 =>
         resp'.obj.QuotaRemaining = Fetched.QuotaRemaining
    /\ \A i \in DOMAIN Fetched.AccessRights :
         LET access == Fetched.AccessRights[i]
             k == CounterKey(access.AllowanceScope)
             left == resp'.obj.AccessRights[i].Limit.QuotaRemaining
         IN IF IsEmpty(access.Limit) \/ access.Limit.QuotaMax \in {-1, 0}
              THEN left = access.Limit.QuotaRemaining
              ELSE k \in DOMAIN quota =>
                     left = Max0(access.Limit.QuotaMax - quota[k]) /\ left >= 0

C12_RemainingFromCounter == [][C12_Step]_vars

\* a fetch answered 0 for the global quota, used beyond its maximum, and
\* what is left for a per-API limit with one request counted
C12_Witness ==
  /\ resp.op = "GET" /\ resp.code = 200
  /\ CounterKey("") \in DOMAIN quota /\ quota[CounterKey("")] > Fetched.QuotaMax
  /\ Fetched.QuotaMax = 2 /\ resp.obj.QuotaRemaining = 0
  /\ \E i \in DOMAIN Fetched.AccessRights :
       /\ Fetched.AccessRights[i].AllowanceScope = "s1"
       /\ Fetched.AccessRights[i].Limit.QuotaMax = 2
       /\ CounterKey("s1") \in DOMAIN quota /\ quota[CounterKey("s1")] = 1
       /\ resp.obj.AccessRights[i].Limit.QuotaRemaining = 1

\* C13 as the spec states it: when the usage counter of a quota scope is
\* absent from the store the fetch reports the full QuotaMax as remaining,
\* for the global quota and for each per-API limit that sets a quota
C13_OriginalStep ==
  ServesFetch =>
    /\ (Fetched.QuotaMax # -1 /\ CounterKey("") \notin DOMAIN quota) =>
         resp'.obj.QuotaRemaining = Fetched.QuotaMax
    /\ \A i \in DOMAIN Fetched.AccessRights :
         LET access == Fetched.AccessRights[i] IN
         (access.Limit.QuotaMax > 0
            /\ CounterKey(access.AllowanceScope) \notin DOMAIN quota) =>
           resp'.obj.AccessRights[i].Limit.QuotaRemaining = access.Limit.QuotaMax

C13_Original == [][C13_OriginalStep]_vars

\* the per-API half of C13, which the code keeps
C13_PerApiStep ==
  ServesFetch =>
    \A i \in DOMAIN Fetched.AccessRights :
      LET access == Fetched.AccessRights[i] IN
      (access.Limit.QuotaMax > 0
         /\ CounterKey(access.AllowanceScope) \notin DOMAIN quota) =>
        resp'.obj.AccessRights[i].Limit.QuotaRemaining = access.Limit.QuotaMax

C13_PerApi == [][C13_PerApiStep]_vars

\* what GET /keys/{key} answers for the stored key before the step
FetchBefore == handleGetDetail(Store, FetchKey, "", Org, FALSE).session

\* the limiter counts a request against this quota scope in the step
Counts(scope) ==
  /\ quota' # quota
  /\ CounterKey(scope) \in DOMAIN quota'
  /\ CounterKey(scope) \in DOMAIN quota =>
       quota'[CounterKey(scope)] # quota[CounterKey(scope)]

\* the remaining allowance a fetch reports for this access right is the
\* same before and after the step
SameLeft(i) ==
  FetchAfter(FetchKey, FALSE).session.AccessRights[i].Limit.QuotaRemaining =
    FetchBefore.AccessRights[i].Limit.QuotaRemaining

\* C14 as the spec states it: usage counted on the key's global quota never
\* changes what a fetch reports for a per-API limit, with or without an
\* allowance scope; usage counted on an allowance scope never changes what
\* is reported for the global quota or for a limit of another scope
C14_OriginalStep ==
  /\ Counts("") => \A i \in DOMAIN Fetched.AccessRights : SameLeft(i)
  /\ \A scope \in {"s1", "s2"} :
       Counts(scope) =>
         /\ FetchAfter(FetchKey, FALSE).session.QuotaRemaining =
              FetchBefore.QuotaRemaining
         /\ \A i \in DOMAIN Fetched.AccessRights :
              Fetched.AccessRights[i].AllowanceScope # scope => SameLeft(i)

C14_Original == [][C14_OriginalStep]_vars

\* C14: usage counted on the key's global quota never changes what a fetch
\* reports for a per-API limit that carries an allowance scope, and usage
\* counted on an allowance scope never changes what is reported for the
\* global quota or for a limit of another scope; a per-API limit without an
\* allowance scope is read from the counter of the global quota
C14_Step ==
  /\ Counts("") =>
       \A i \in DOMAIN Fetched.AccessRights :
         Fetched.AccessRights[i].AllowanceScope # "" => SameLeft(i)
  /\ \A scope \in {"s1", "s2"} :
       Counts(scope) =>
         /\ FetchAfter(FetchKey, FALSE).session.QuotaRemaining =
              FetchBefore.QuotaRemaining
         /\ \A i \in DOMAIN Fetched.AccessRights :
              Fetched.AccessRights[i].AllowanceScope # scope => SameLeft(i)

C14_SeparateLedgers == [][C14_Step]_vars

\* a fetch answered three different remaining allowances for the global
\* quota and two allowance scopes of the key
C14_Witness ==
  /\ resp.op = "GET" /\ resp.code = 200
  /\ DOMAIN resp.obj.AccessRights = {"api1", "api2"}
  /\ CounterKey("") \in DOMAIN quota /\ quota[CounterKey("")] = 1
  /\ CounterKey("s1") \in DOMAIN quota /\ quota[CounterKey("s1")] = 2
  /\ CounterKey("s2") \notin DOMAIN quota
  /\ resp.obj.QuotaMax = 2 /\ resp.obj.QuotaRemaining = 1
  /\ resp.obj.AccessRights["api1"].Limit.QuotaRemaining = 0
  /\ resp.obj.AccessRights["api2"].Limit.QuotaRemaining = 2

\* the step answers a create with success and stores the key, for a payload
\* that names no policy and whose Expires is zero or ahead of the clock
\* (POST /keys/{keyName} stores nothing when every API of the payload has
\* DontSetQuotasOnCreate)
PlainCreate ==
  /\ Serves("POST") \/ Serves("CREATE")
  /\ resp'.code = 200
  /\ Addr(resp'.key, FALSE) \in DOMAIN sessions'
  /\ req.op = "POST" =>
       \/ DOMAIN req.payload.AccessRights = {}
       \/ \E a \in DOMAIN req.payload.AccessRights :
            ~apisByID[a].DontSetQuotasOnCreate
  /\ req.payload.ApplyPolicies = <<>>
  /\ req.payload.Expires = 0 \/ req.payload.Expires > now

\* the same API IDs with the same limits and scopes, the remaining
\* allowance of the limits apart
SameRights(got, sent) ==
  /\ DOMAIN got = DOMAIN sent
  /\ \A i \in DOMAIN got :
       /\ got[i].AllowanceScope = sent[i].AllowanceScope
       /\ [got[i].Limit EXCEPT !.QuotaRemaining = 0] =
            [sent[i].Limit EXCEPT !.QuotaRemaining = 0]

\* the stored side of C15: the fetch after a create answers the access
\* rights, the Expires and the OrgID of the payload
C15_StoredStep ==
  PlainCreate =>
    LET f == FetchAfter(resp'.key, FALSE) IN
    /\ f.code = 200
    /\ SameRights(f.session.AccessRights, req.payload.AccessRights)
    /\ f.session.Expires = req.payload.Expires
    /\ f.session.OrgID = req.payload.OrgID

C15_Stored == [][C15_StoredStep]_vars

\* C15 as the spec states it, for a payload without policies and without a
\* past Expires: creating a key and fetching it answers the AccessRights,
\* Expires and OrgID that were submitted, and a QuotaRemaining computed from
\* the usage counter (no usage when there is none), never the value written
\* at creation
C15_OriginalStep ==
  /\ C15_StoredStep
  /\ PlainCreate =>
       LET f == FetchAfter(resp'.key, FALSE).session
           k == <<"">> \o Addr(resp'.key, FALSE)
       IN f.QuotaRemaining =
            Max0(f.QuotaMax - (IF k \in DOMAIN quota' THEN quota'[k] ELSE 0))

C15_Original == [][C15_OriginalStep]_vars

\* a key of the store's namespace that is a counter of the limiter
IsCounterKey(k) == k[1] = QuotaKeyPrefix \/ k[1] = RateLimitKeyPrefix

\* the keys the store answered for the listing in service
Listed ==
  IF req.op = "ORGLIST" THEN req.listed[1]
  ELSE IF ListFilter(req.filter) # <<>> THEN req.listed[1] \o req.listed[2]
  ELSE req.listed[1]

\* C16: the key list of GET /keys and the key list of the organisations
\* never hold a key that begins with the quota prefix or the rate-limit
\* prefix, and hold every other key the store answered for the filter
C16_Step ==
  ((Serves("LIST") \/ Serves("ORGLIST")) /\ resp'.code = 200) =>
    /\ \A i \in 1..Len(resp'.obj) : ~IsCounterKey(resp'.obj[i])
    /\ \A j \in 1..Len(Listed) :
         ~IsCounterKey(Listed[j]) =>
           \E i \in 1..Len(resp'.obj) : resp'.obj[i] = Listed[j]

C16_ListsSessionKeysOnly == [][C16_Step]_vars

\* a listing answered two session keys out of a store that also holds a
\* quota counter and rate-limit counters
C16_Witness ==
  /\ resp.op = "LIST" /\ resp.code = 200
  /\ Len(resp.obj) = 2
  /\ \E k \in Namespace(Store) : k[1] = QuotaKeyPrefix
  /\ \E k \in Namespace(Store) : k[1] = RateLimitKeyPrefix
  /\ Cardinality(Namespace(Store)) > 4

\* the places in the policy list of the payload whose policy names the API
Naming(payload, api) ==
  {i \in DOMAIN payload.ApplyPolicies :
     api \in DOMAIN policiesByID[payload.ApplyPolicies[i]].AccessRights}

Last(S) == CHOOSE i \in S : \A j \in S : j <= i

\* the step answers a create with success and saves the key
SavedCreate ==
  /\ Serves("POST") \/ Serves("CREATE")
  /\ resp'.code = 200
  /\ Addr(resp'.key, FALSE) \in DOMAIN sessions'
  /\ req.op = "POST" =>
       \/ DOMAIN Effective(req.payload) = {}
       \/ \E a \in DOMAIN Effective(req.payload) :
            ~apisByID[a].DontSetQuotasOnCreate

\* C17: the access rights stored for a created key hold, for each API that
\* a referenced policy names, the access definition of the last policy in
\* the order of the key's policy list that names it, and for every other
\* API the access right of the payload
C17_Step ==
  SavedCreate =>
    LET stored == sessions'[Addr(resp'.key, FALSE)].AccessRights
        payload == req.payload
    IN /\ DOMAIN stored = DOMAIN payload.AccessRights \cup PolicyAPIs(payload)
       /\ \A api \in DOMAIN stored :
            IF Naming(payload, api) # {}
              THEN stored[api] =
                     policiesByID[payload.ApplyPolicies[Last(Naming(payload, api))]]
                       .AccessRights[api]
              ELSE stored[api] = payload.AccessRights[api]

C17_LastPolicyWins == [][C17_Step]_vars

\* a key was created with the policies p2 and p1, in this order: api1 is
\* stored as p1 defines it, api2 as p2 does
C17_Witness ==
  /\ resp.op \in {"POST", "CREATE"} /\ resp.code = 200
  /\ Addr(resp.key, FALSE) \in DOMAIN sessions
  /\ LET s == sessions[Addr(resp.key, FALSE)] IN
       /\ s.ApplyPolicies = <<"p2", "p1">>
       /\ s.AccessRights["api1"] = policiesByID["p1"].AccessRights["api1"]
       /\ s.AccessRights["api2"] = policiesByID["p2"].AccessRights["api2"]

\* C18: for a created key, an access right whose Limit has every field
\* zero is stored with the zero Limit when no referenced policy names its
\* API, and with the policy's non-zero Limit when one does; resetAPILimits
\* leaves every access right with a non-zero field as it is and keeps the
\* set of API IDs, so such a right of the payload is stored unchanged when
\* no policy names its API
C18_Step ==
  SavedCreate =>
    LET stored == sessions'[Addr(resp'.key, FALSE)].AccessRights
        payload == req.payload
        rights == Effective(payload)
    IN /\ DOMAIN resetAPILimits(rights) = DOMAIN rights
       /\ \A api \in DOMAIN rights :
            rights[api].Limit # ZeroLimit => resetAPILimits(rights)[api] = rights[api]
       /\ \A api \in DOMAIN payload.AccessRights :
            IF Naming(payload, api) # {}
              THEN /\ stored[api].Limit =
                        policiesByID[payload.ApplyPolicies[Last(Naming(payload, api))]]
                          .AccessRights[api].Limit
                   /\ stored[api].Limit # ZeroLimit
              ELSE IF payload.AccessRights[api].Limit = ZeroLimit
                THEN stored[api].Limit = ZeroLimit
                ELSE stored[api] = payload.AccessRights[api]

C18_ZeroLimitIsNoOverride == [][C18_Step]_vars

\* a key was created whose payload gave api1 an all-zero Limit and api2 a
\* non-zero one, under policy p1 that names api1: api1 is stored with the
\* policy's limit, api2 with the payload's
C18_Witness ==
  /\ resp.op \in {"POST", "CREATE"} /\ resp.code = 200
  /\ Addr(resp.key, FALSE) \in DOMAIN sessions
  /\ LET s == sessions[Addr(resp.key, FALSE)] IN
       /\ s.ApplyPolicies = <<"p1">>
       /\ DOMAIN s.AccessRights = {"api1", "api2"}
       /\ s.AccessRights["api1"].Limit.QuotaMax = 3
       /\ s.AccessRights["api2"].Limit = APILimit(2, 0)

\* the key a creation with this certificate is stored under
CertKey(payload) == generateToken(payload.OrgID, <<payload.Certificate>>)

\* process p starts a creation in the step
Begins(p) == p \notin DOMAIN inflight /\ p \in DOMAIN inflight'

\* process p ends a creation in the step
Finishes(p) ==
  /\ p \in DOMAIN inflight /\ inflight[p].pc = "checked"
  /\ inflight'[p].pc = "done"

\* the creations of p and q were for the same organisation and certificate
\* and both were answered with success
BothSucceed(p, q) ==
  /\ p # q
  /\ inflight[p].pc = "done" /\ inflight[p].code = 200
  /\ inflight[q].pc = "done" /\ inflight[q].code = 200
  /\ inflight[p].payload.OrgID = inflight[q].payload.OrgID
  /\ inflight[p].payload.Certificate = inflight[q].payload.Certificate

\* C19 as the spec states it: two creations with the same organisation and
\* certificate never both succeed, also when they run at the same time
C19_Original ==
  \A p \in DOMAIN inflight, q \in DOMAIN inflight : ~BothSucceed(p, q)

\* C19: a creation with a Certificate is stored under the key made from
\* OrgID and Certificate; it is rejected with status 500, leaving the store
\* unchanged, when a session is stored under that key at the time of its
\* lookup; and of two creations with the same organisation and certificate
\* the one that starts after the other has succeeded never succeeds (two
\* that overlap can both pass the lookup and both succeed)
C19_Step ==
  /\ \A p \in Procs :
       Begins(p) =>
         /\ sessions' = sessions /\ quota' = quota
         /\ IF Addr(CertKey(inflight'[p].payload), FALSE) \in DOMAIN sessions
              THEN inflight'[p].pc = "done" /\ inflight'[p].code = 500
              ELSE inflight'[p].pc = "checked"
  /\ \A p \in Procs :
       (Finishes(p) /\ inflight'[p].code = 200) =>
         /\ inflight'[p].key = CertKey(inflight[p].payload)
         /\ Addr(inflight'[p].key, FALSE) \in DOMAIN sessions'
  /\ \A p \in DOMAIN inflight', q \in DOMAIN inflight' :
       (/\ q \in inflight'[p].after
        /\ inflight'[q].code = 200
        /\ inflight'[q].payload.OrgID = inflight'[p].payload.OrgID
        /\ inflight'[q].payload.Certificate = inflight'[p].payload.Certificate)
         => inflight'[p].code # 200

C19_CertificateKeyOnce == [][C19_Step]_vars

\* a creation was rejected for a certificate whose key an earlier creation
\* had stored
C19_Witness ==
  \E p \in DOMAIN inflight, q \in DOMAIN inflight :
    /\ q \in inflight[p].after
    /\ inflight[q].code = 200 /\ inflight[p].code = 500
    /\ inflight[q].payload.Certificate = inflight[p].payload.Certificate
    /\ Addr(inflight[q].key, FALSE) \in DOMAIN sessions
    /\ sessions[Addr(inflight[q].key, FALSE)].Certificate =
         inflight[p].payload.Certificate

\* C20: a PUT for a stored key whose payload Certificate differs from the
\* stored one is rejected with status 400, leaving every session and every
\* counter unchanged, when the new Certificate is empty or is not in the
\* certificate store; and a PUT changes the certificate of a stored
\* session only to a certificate that is in the certificate store
C20_Step ==
  Serves("PUT") =>
    /\ (/\ Named(req) \in DOMAIN sessions
        /\ req.payload.Certificate # sessions[Named(req)].Certificate
        /\ req.payload.Certificate = "" \/ req.payload.Certificate \notin CertStore)
         => /\ resp'.code = 400
            /\ sessions' = sessions
            /\ quota' = quota
    /\ \A a \in DOMAIN sessions \cap DOMAIN sessions' :
         sessions'[a].Certificate # sessions[a].Certificate =>
           sessions'[a].Certificate \in CertStore

C20_Changed ==
  /\ resp.op = "PUT" /\ resp.code = 200
  /\ Addr(resp.key, FALSE) \in DOMAIN sessions
  /\ sessions[Addr(resp.key, FALSE)].Certificate = "c2"

\* ---- basic-auth passwords: create, fetch and put back ----

\* the passwords of the payloads: none, two plaintexts, and one the hasher
\* rejects
Passwords == {<<>>, <<"pw1">>, <<"pw2">>, <<"long">>}

PasswordPayload(password, kind) ==
  [Payload("api1" :> Access(ZeroLimit, ""), <<>>, 0)
     EXCEPT !.BasicAuthData = [Password |-> password, Hash |-> kind]]

\* the session that GET /keys/{keyName} answers for the key, if any
PasswordFetched ==
  LET d == handleGetDetail(Store, FetchKey, "", Org, FALSE)
  IN IF d.code = 200 THEN {d.session} ELSE {}

\* the password of the stored session, if any
PasswordStored == {s.BasicAuthData.Password : s \in PasswordFetched}

\* creates with every password; updates with every password, with the
\* stored password, and with the session as it was fetched
PasswordRequests ==
  {[NoReq EXCEPT !.op = "POST", !.keyName = <<"k1">>,
                 !.payload = PasswordPayload(p, "")] : p \in Passwords} \cup
  {[NoReq EXCEPT !.op = "PUT", !.keyName = FetchKey,
                 !.payload = PasswordPayload(p, "")] :
     p \in Passwords \cup PasswordStored} \cup
  {[NoReq EXCEPT !.op = "PUT", !.keyName = FetchKey, !.payload = s] :
     s \in PasswordFetched}

PasswordNext ==
  \/ req = NoReq /\ \E r \in PasswordRequests : Receive(r)
  \/ \E ord \in Orders(FanOut(req.payload)) : KeyPost(ord)
  \/ \E ord \in Orders(FanOut(req.payload)) : KeyPut(ord, ord)

PasswordSpec == Init /\ [][PasswordNext]_vars

\* the basic-auth data of the key before and after the step
AuthBefore == sessions[Addr(FetchKey, FALSE)].BasicAuthData

AuthAfter == sessions'[Addr(FetchKey, FALSE)].BasicAuthData

\* the step stores the password of the request hashed
StoresHashed ==
  AuthAfter = [Password |-> <<"$2a">> \o req.payload.BasicAuthData.Password,
               Hash |-> HashBCrypt]

\* the step stores the password of the request as it is, marked plaintext
StoresPlain ==
  AuthAfter = [Password |-> req.payload.BasicAuthData.Password,
               Hash |-> HashPlainText]

\* the step answers the request with success and the key is stored after it
Saves(op) ==
  /\ Serves(op) /\ resp'.code = 200
  /\ Addr(resp'.key, FALSE) = Addr(FetchKey, FALSE)
  /\ Addr(FetchKey, FALSE) \in DOMAIN sessions'

\* C21 as the spec states it: a create stores a non-empty password hashed;
\* an update stores a password equal to the stored one unchanged, hashes a
\* different non-empty one, and keeps the stored password and hash kind on an
\* empty one; putting a fetched session back leaves the password as it was
C21_OriginalStep ==
  LET p == req.payload.BasicAuthData.Password IN
  /\ (Saves("POST") /\ p # <<>>) => StoresHashed
  /\ Saves("PUT") =>
       /\ (p # <<>> /\ p = AuthBefore.Password)
            => AuthAfter.Password = AuthBefore.Password
       /\ (p # <<>> /\ p # AuthBefore.Password) => StoresHashed
       /\ p = <<>> => AuthAfter = AuthBefore
       /\ req.payload \in PasswordFetched => AuthAfter = AuthBefore

C21_Original == [][C21_OriginalStep]_vars

\* C21, amended: a create stores a non-empty password hashed, and an update
\* hashes a non-empty password that differs from the stored one, unless the
\* hasher rejects the password, and then it is stored as it is with the hash
\* kind plaintext; an update stores a password equal to the stored one
\* unchanged and keeps the stored password and hash kind on an empty one;
\* putting a fetched session back leaves password and hash kind as they were
C21_Step ==
  LET p == req.payload.BasicAuthData.Password IN
  /\ (Saves("POST") /\ p # <<>>)
       => IF p \in Unhashable THEN StoresPlain ELSE StoresHashed
  /\ Saves("PUT") =>
       /\ (p # <<>> /\ p = AuthBefore.Password)
            => AuthAfter.Password = AuthBefore.Password
       /\ (p # <<>> /\ p # AuthBefore.Password)
            => IF p \in Unhashable THEN StoresPlain ELSE StoresHashed
       /\ p = <<>> => AuthAfter = AuthBefore
       /\ req.payload \in PasswordFetched => AuthAfter = AuthBefore

C21_PasswordHashedOnce == [][C21_Step]_vars

\* an update carried the stored hash of a password, without a hash kind, and
\* the hash was stored as it was
C21_Witness ==
  /\ resp.op = "PUT" /\ resp.code = 200
  /\ Addr(FetchKey, FALSE) \in DOMAIN sessions
  /\ sessions[Addr(FetchKey, FALSE)].BasicAuthData =
       [Password |-> <<"$2a", "pw1">>, Hash |-> ""]

\* ---- the OAuth client registry ----

MaxTokens == 2

\* the OAuth state that a handler reads and writes
OAuthStore == [clients |-> clients, tokens |-> tokens, managers |-> managers]

\* the storage calls that fail during a request: SetClient and
\* RevokeAllTokens by API, the reads of clients and of token lists, and
\* RemoveAccess by token
NoFailure ==
  [SetClient |-> {}, GetClient |-> FALSE, GetClients |-> {},
   GetClientTokens |-> FALSE, RemoveAccess |-> {}, RevokeAllTokens |-> {}]

prefixClient == "oauth-clientid."

\* oauthClientStorageID
oauthClientStorageID(clientID) == <<prefixClient, clientID>>

OAuthClient(id, secret, uri, policy, meta, description) ==
  [ClientID |-> id, ClientSecret |-> secret, ClientRedirectURI |-> uri,
   PolicyID |-> policy, MetaData |-> meta, Description |-> description]

\* the handler's answer: the OAuth state after it, status code, error
\* message, the client it reports, and the tokens it notifies as revoked
OAuthReply(st, code, msg, obj, revoked) ==
  [st |-> st, code |-> code, msg |-> msg, obj |-> obj, revoked |-> revoked]

NoClient == OAuthClient("", "", "", "", "", "")

\* a nil OAuthManager is dereferenced: the handler panics, the server
\* recovers and the connection is closed without an answer
Panic(st) == OAuthReply(st, 0, "panic", NoClient, {})

\* Storage.SetClient on the storage of the API
SetClient(st, apiID, storageID, client) ==
  [st EXCEPT !.clients[apiID] = Put(@, storageID, client)]

\* Storage.GetExtendedClientNoPrefix on the storage of the API
GetClientFound(st, apiID, storageID, fails) ==
  ~fails.GetClient /\ storageID \in DOMAIN st.clients[apiID]

\* Storage.GetClients on the storage of the API: the clients under the prefix
GetClients(st, apiID, filterID) ==
  {st.clients[apiID][k] : k \in {x \in DOMAIN st.clients[apiID] : x[1] = filterID}}

\* Storage.GetClientTokens on the storage of the API
GetClientTokens(st, apiID, clientID) ==
  {t \in st.tokens[apiID] : t.ClientID = clientID}

\* Storage.RemoveAccess for each of the tokens
RemoveAccess(st, apiID, removed) ==
  [st EXCEPT !.tokens[apiID] = @ \ removed]

\* the lookup of an API definition in the registry
getOAuthApiSpecFound(apiID) == apiID \in DOMAIN oauthApisByID

\* a creation that stores the client on every registered API of the policy
createOauthClientEvery(st, newClient, ord, oauth2, fails) ==
  OAuthReply([st EXCEPT !.clients =
                [a \in DOMAIN @ |->
                   IF a \in {ord[i] : i \in DOMAIN ord}
                     THEN Put(@[a], oauthClientStorageID(newClient.ClientID),
                              newClient)
                     ELSE @[a]]],
             200, "", newClient, {})

\* a registration that stores the client on every API of the policy or,
\* when one of them fails, on none
createOauthClientAtomic(st, newClient, ord, oauth2, fails) ==
  LET enabled == {a \in {ord[i] : i \in DOMAIN ord} \cap DOMAIN oauthApisByID :
                    oauthApisByID[a].UseOauth2 \/ oauthApisByID[a].EnableJWT}
  IN IF \E i \in DOMAIN ord : ~getOAuthApiSpecFound(ord[i])
       THEN OAuthReply(st, 400, "API doesn't exist", NoClient, {})
     ELSE IF enabled \cap fails.SetClient # {}
       THEN OAuthReply(st, 500, "Failure in storing client data.", NoClient, {})
     ELSE IF enabled = {} /\ ~oauth2
       THEN OAuthReply(st, 400, "API is not OAuth2", NoClient, {})
     ELSE OAuthReply(
            [st EXCEPT !.managers = @ \cup enabled,
                       !.clients =
                         [a \in DOMAIN @ |->
                            IF a \in enabled
                              THEN Put(@[a], oauthClientStorageID(newClient.ClientID),
                                       newClient)
                              ELSE @[a]]],
            200, "", newClient, {})

\* createOauthClient, the loop over the access rights of the policy in the
\* order of the map iteration
RECURSIVE createOauthClientLoop(_, _, _, _, _)
createOauthClientLoop(st, newClient, ord, oauth2, fails) ==
  IF ord = <<>>
    THEN IF ~oauth2
           THEN OAuthReply(st, 400, "API is not OAuth2", NoClient, {})
           ELSE OAuthReply(st, 200, "", newClient, {})
    ELSE
      LET apiID == Head(ord) IN
      IF ~getOAuthApiSpecFound(apiID)
        THEN OAuthReply(st, 400, "API doesn't exist", NoClient, {})
      ELSE IF oauthApisByID[apiID].UseOauth2 \/ oauthApisByID[apiID].EnableJWT
        THEN LET st1 == [st EXCEPT !.managers = @ \cup {apiID}] IN
             IF apiID \in fails.SetClient
               THEN OAuthReply(st1, 500, "Failure in storing client data.",
                               NoClient, {})
               ELSE createOauthClientLoop(
                      SetClient(st1, apiID,
                                oauthClientStorageID(newClient.ClientID),
                                newClient),
                      newClient, Tail(ord), TRUE, fails)
      ELSE createOauthClientLoop(st, newClient, Tail(ord), oauth2, fails)

\* a creation that stores the client whether or not the API uses OAuth2
createOauthClientAnyApi(st, newOauthClient, u5, generated, ord, fails) ==
  LET newClient == OAuthClient(IF newOauthClient.ClientID = "" THEN u5
                               ELSE newOauthClient.ClientID,
                               IF newOauthClient.ClientSecret = "" THEN generated
                               ELSE newOauthClient.ClientSecret,
                               newOauthClient.ClientRedirectURI,
                               newOauthClient.PolicyID,
                               newOauthClient.MetaData,
                               newOauthClient.Description)
  IN IF newOauthClient.APIID \in DOMAIN oauthApisByID
       THEN OAuthReply(SetClient(st, newOauthClient.APIID,
                                 oauthClientStorageID(newClient.ClientID),
                                 newClient),
                       200, "", newClient, {})
       ELSE OAuthReply(st, 400, "API doesn't exist", NoClient, {})

\* createOauthClient: u5 and generated are the random identifier and secret,
\* ord the order in which the map of access rights is iterated
createOauthClient(st, newOauthClient, u5, generated, ord, fails) ==
  LET cleanSting == IF newOauthClient.ClientID = "" THEN u5
                    ELSE newOauthClient.ClientID
      secret == IF newOauthClient.ClientSecret = "" THEN generated
                ELSE newOauthClient.ClientSecret
      newClient == OAuthClient(cleanSting, secret,
                               newOauthClient.ClientRedirectURI,
                               newOauthClient.PolicyID,
                               newOauthClient.MetaData,
                               newOauthClient.Description)
      storageID == oauthClientStorageID(newClient.ClientID)
  IN IF newOauthClient.APIID # ""
       THEN IF ~getOAuthApiSpecFound(newOauthClient.APIID)
              THEN OAuthReply(st, 400, "API doesn't exist", NoClient, {})
            ELSE IF ~oauthApisByID[newOauthClient.APIID].UseOauth2
              THEN OAuthReply(st, 400, "API is not OAuth2", NoClient, {})
            ELSE IF newOauthClient.APIID \in fails.SetClient
              THEN OAuthReply(st, 500, "Failure in storing client data.",
                              NoClient, {})
            ELSE OAuthReply(SetClient(st, newOauthClient.APIID, storageID,
                                      newClient),
                            200, "", newClient, {})
       ELSE IF newClient.PolicyID \notin DOMAIN oauthPoliciesByID
              THEN OAuthReply(st, 400, "Policy doesn't exist", NoClient, {})
              ELSE createOauthClientLoop(st, newClient, ord, FALSE, fails)

\* a revocation of the client's tokens whatever the policies are
invalidateTokensAlways(st, apiID, prevClient, updatedClient, fails) ==
  RemoveAccess(st, apiID, GetClientTokens(st, apiID, updatedClient.ClientID))

\* invalidateTokens: when the policy changes away from a non-empty one, list
\* the tokens of the client and remove each; an error of the token store is
\* logged and nothing else
invalidateTokens(st, apiID, prevClient, updatedClient, fails) ==
  IF prevClient.PolicyID # "" /\ prevClient.PolicyID # updatedClient.PolicyID
    THEN LET tokenList == IF fails.GetClientTokens THEN {}
                          ELSE GetClientTokens(st, apiID, updatedClient.ClientID)
         IN RemoveAccess(st, apiID,
                         {t \in tokenList : t.Token \notin fails.RemoveAccess})
    ELSE st

\* rotateOauthClient: generated is the new random secret
rotateOauthClient(st, keyName, apiID, generated, fails) ==
  LET storageID == oauthClientStorageID(keyName) IN
  IF ~getOAuthApiSpecFound(apiID)
    THEN OAuthReply(st, 404, "API doesn't exist", NoClient, {})
  ELSE IF apiID \notin st.managers
    THEN Panic(st)
  ELSE IF ~GetClientFound(st, apiID, storageID, fails)
    THEN OAuthReply(st, 404, "OAuth Client ID not found", NoClient, {})
  ELSE
    LET client == st.clients[apiID][storageID]
        updatedClient == OAuthClient(client.ClientID, generated,
                                     client.ClientRedirectURI, client.PolicyID,
                                     client.MetaData, client.Description)
    IN IF apiID \in fails.SetClient
         THEN OAuthReply(st, 500, "Failure in storing client data", NoClient, {})
         ELSE OAuthReply(invalidateTokens(
                           SetClient(st, apiID, storageID, updatedClient),
                           apiID, client, updatedClient, fails),
                         200, "", updatedClient, {})

\* an update that stores the identifier and the secret of its payload
updateOauthClientAll(st, keyName, apiID, updateClientData, fails) ==
  LET storageID == oauthClientStorageID(keyName)
      updatedClient == OAuthClient(updateClientData.ClientID,
                                   updateClientData.ClientSecret,
                                   updateClientData.ClientRedirectURI,
                                   updateClientData.PolicyID,
                                   updateClientData.MetaData,
                                   updateClientData.Description)
  IN IF apiID \in DOMAIN st.clients /\ storageID \in DOMAIN st.clients[apiID]
       THEN OAuthReply(SetClient(st, apiID, storageID, updatedClient),
                       200, "", updatedClient, {})
       ELSE OAuthReply(st, 404, "OAuth Client ID not found", NoClient, {})

\* updateOauthClient
updateOauthClient(st, keyName, apiID, updateClientData, fails) ==
  LET storageID == oauthClientStorageID(keyName) IN
  IF ~getOAuthApiSpecFound(apiID)
    THEN OAuthReply(st, 404, "API doesn't exist", NoClient, {})
  ELSE IF /\ updateClientData.PolicyID # ""
          /\ updateClientData.PolicyID \notin DOMAIN oauthPoliciesByID
    THEN OAuthReply(st, 404, "Policy doesn't exist", NoClient, {})
  ELSE IF /\ updateClientData.PolicyID # ""
          /\ apiID \notin
               DOMAIN oauthPoliciesByID[updateClientData.PolicyID].AccessRights
    THEN OAuthReply(st, 400,
           "Policy access rights doesn't contain API this OAuth client belongs to",
           NoClient, {})
  ELSE IF apiID \notin st.managers
    THEN Panic(st)
  ELSE IF ~GetClientFound(st, apiID, storageID, fails)
    THEN OAuthReply(st, 404, "OAuth Client ID not found", NoClient, {})
  ELSE
    LET client == st.clients[apiID][storageID]
        updatedClient == OAuthClient(client.ClientID, client.ClientSecret,
                                     updateClientData.ClientRedirectURI,
                                     updateClientData.PolicyID,
                                     updateClientData.MetaData,
                                     updateClientData.Description)
    IN IF apiID \in fails.SetClient
         THEN OAuthReply(st, 500, "Failure in storing client data", NoClient, {})
         ELSE OAuthReply(invalidateTokens(
                           SetClient(st, apiID, storageID, updatedClient),
                           apiID, client, updatedClient, fails),
                         200, "", updatedClient, {})

\* getApisIdsForOrg: the APIs of the organisation, all of them for no
\* organisation
getApisIdsForOrg(orgID) ==
  {a \in DOMAIN oauthApisByID : oauthApisByID[a].OrgID = orgID \/ orgID = ""}

\* getApiClients: the clients of the API; only an API that uses OAuth2 has
\* its storage read
getApiClients(st, apiID, fails) ==
  IF ~getOAuthApiSpecFound(apiID)
    THEN [status |-> 404, clientData |-> {}]
  ELSE IF oauthApisByID[apiID].UseOauth2
    THEN IF apiID \in fails.GetClients
           THEN [status |-> 404, clientData |-> {}]
           ELSE [status |-> 200, clientData |-> GetClients(st, apiID, prefixClient)]
  ELSE [status |-> 200, clientData |-> {}]

\* getApisForOauthClientId: the APIs of the organisation whose client list
\* holds the client
getApisForOauthClientId(st, oauthClientId, orgId, fails) ==
  {a \in getApisIdsForOrg(orgId) :
     /\ getApiClients(st, a, fails).status = 200
     /\ \E client \in getApiClients(st, a, fails).clientData :
          client.ClientID = oauthClientId}

\* GetStorageForApi: the storage of the API, if it is registered and has an
\* OAuthManager
GetStorageForApiFound(st, apiID) ==
  getOAuthApiSpecFound(apiID) /\ apiID \in st.managers

\* RevokeAllTokens on the storage of the API: every token of the client
RevokedOn(st, apiID, clientId, fails) ==
  IF GetStorageForApiFound(st, apiID) /\ apiID \notin fails.RevokeAllTokens
    THEN GetClientTokens(st, apiID, clientId)
    ELSE {}

\* RevokeAllTokensHandler
RevokeAllTokensHandler(st, clientId, clientSecret, orgId, fails) ==
  LET apis == getApisForOauthClientId(st, clientId, orgId, fails) IN
  IF clientId = ""
    THEN OAuthReply(st, 401, "client_id is required", NoClient, {})
  ELSE IF clientSecret = ""
    THEN OAuthReply(st, 401, "client_secret is required", NoClient, {})
  ELSE IF apis = {}
    THEN OAuthReply(st, 404, "oauth client doesn't exist", NoClient, {})
  ELSE OAuthReply(
         [st EXCEPT !.tokens =
            [a \in DOMAIN @ |->
               IF a \in apis THEN @[a] \ RevokedOn(st, a, clientId, fails)
               ELSE @[a]]],
         200, "tokens revoked successfully", NoClient,
         UNION {RevokedOn(st, a, clientId, fails) : a \in apis})

\* ---- the OAuth requests ----

\* the storage failures of one request
Failures ==
  {NoFailure,
   [NoFailure EXCEPT !.SetClient = {"a1"}],
   [NoFailure EXCEPT !.SetClient = {"j1"}],
   [NoFailure EXCEPT !.GetClient = TRUE],
   [NoFailure EXCEPT !.GetClients = {"a1"}],
   [NoFailure EXCEPT !.GetClientTokens = TRUE],
   [NoFailure EXCEPT !.RemoveAccess = {<<"a1", 1>>}],
   [NoFailure EXCEPT !.RevokeAllTokens = {"a1"}]}

NewClientRequest(id, secret, apiID, policy, uri, meta, description) ==
  [ClientID |-> id, ClientSecret |-> secret, APIID |-> apiID,
   PolicyID |-> policy, ClientRedirectURI |-> uri, MetaData |-> meta,
   Description |-> description]

\* the registrations: with identifier and secret or without both, for one
\* API, registered or not, and through a policy, known or not
CreateRequests ==
  {NewClientRequest(c[1], c[2], t[1], t[2], "r1", "m1", "d1") :
     c \in {<<"", "">>, <<"c1", "s1">>},
     t \in ({"a1", "j1", "n1", "apiX"} \X {"", "qj"}) \cup
           ({""} \X {"", "qa", "qj", "qn", "qx", "qp"})}

\* the updates: every field differs from what a registration stores
UpdateRequests ==
  {NewClientRequest("cz", "sz", "", policy, uri, "m2", "d2") :
     policy \in {"", "qa", "qj", "qn", "qz"}, uri \in {"r2"}}

ClientIDs == {"c1", "u5", "cz"}

\* the APIs whose storage failed during the request
Failed(fails) == fails.SetClient \cup fails.GetClients \cup fails.RevokeAllTokens

OAuthServed(op, request, fails, r) ==
  /\ ops < MaxOps
  /\ ops' = ops + 1
  /\ clients' = r.st.clients
  /\ tokens' = r.st.tokens
  /\ managers' = r.st.managers
  /\ resp' = [op |-> op, code |-> r.code, msg |-> r.msg, obj |-> r.obj,
               revoked |-> r.revoked, request |-> request, failed |-> Failed(fails)]
  /\ UNCHANGED <<sessions, quota, now, cfg, req, inflight, reloadVars,
               registryVars>>

\* POST /oauth/clients/create
OAuthCreate(newOauthClient, ord, fails) ==
  OAuthServed("create", newOauthClient, fails,
              createOauthClient(OAuthStore, newOauthClient, "u5", "g1", ord, fails))

\* createOauthClientSecret: a random secret, one that no stored client has
FreshSecret ==
  CHOOSE g \in {"g2", "g3", "g4", "g5"} :
    \A a \in DOMAIN clients : \A k \in DOMAIN clients[a] :
      clients[a][k].ClientSecret # g

\* PUT /oauth/clients/{apiID}/{keyName}/rotate
OAuthRotate(keyName, apiID, fails) ==
  OAuthServed("rotate", [keyName |-> keyName, apiID |-> apiID], fails,
              rotateOauthClient(OAuthStore, keyName, apiID, FreshSecret, fails))

\* PUT /oauth/clients/{apiID}/{keyName}
OAuthUpdate(keyName, apiID, updateClientData, fails) ==
  OAuthServed("update",
              [keyName |-> keyName, apiID |-> apiID, payload |-> updateClientData],
              fails,
              updateOauthClient(OAuthStore, keyName, apiID, updateClientData,
                                fails))

\* POST /oauth/revoke_all
OAuthRevokeAll(clientId, clientSecret, orgId, fails) ==
  OAuthServed("revoke_all",
              [client_id |-> clientId, client_secret |-> clientSecret,
               org_id |-> orgId],
              fails,
              RevokeAllTokensHandler(OAuthStore, clientId, clientSecret, orgId,
                                     fails))

\* the number of tokens in the storages of all APIs
RECURSIVE TokenCount(_)
TokenCount(apis) ==
  IF apis = {} THEN 0
  ELSE LET a == CHOOSE x \in apis : TRUE
       IN Cardinality(tokens[a]) + TokenCount(apis \ {a})

\* the token endpoint of an API issues an access token to a client that is
\* registered on it
IssueToken(apiID, clientID) ==
  /\ TokenCount(DOMAIN tokens) < MaxTokens
  /\ apiID \in managers
  /\ oauthClientStorageID(clientID) \in DOMAIN clients[apiID]
  /\ tokens' = [tokens EXCEPT ![apiID] =
                  @ \cup {[Token |-> <<apiID, Cardinality(@) + 1>>,
                           ClientID |-> clientID]}]
  /\ UNCHANGED <<sessions, quota, now, cfg, ops, req, resp, inflight, clients,
                 managers, reloadVars, registryVars>>

\* the orders in which createOauthClient can iterate the access rights of
\* the policy of the request
PolicyOrders(newOauthClient) ==
  IF newOauthClient.PolicyID \in DOMAIN oauthPoliciesByID
    THEN Orders(DOMAIN oauthPoliciesByID[newOauthClient.PolicyID].AccessRights)
    ELSE {<<>>}

OAuthNext ==
  \/ \E c \in CreateRequests, fails \in Failures :
       \E ord \in PolicyOrders(c) : OAuthCreate(c, ord, fails)
  \/ \E k \in ClientIDs, a \in DOMAIN oauthApisByID \cup {"apiX"},
         fails \in Failures : OAuthRotate(k, a, fails)
  \/ \E k \in ClientIDs, a \in DOMAIN oauthApisByID \cup {"apiX"},
         u \in UpdateRequests, fails \in Failures : OAuthUpdate(k, a, u, fails)
  \/ \E a \in DOMAIN oauthApisByID, c \in ClientIDs : IssueToken(a, c)

\* registrations, tokens and revocations
RevokeNext ==
  \/ \E c \in CreateRequests, fails \in Failures :
       \E ord \in PolicyOrders(c) : OAuthCreate(c, ord, fails)
  \/ \E c \in ClientIDs \cup {""}, s \in {"", "s1"}, o \in {Org, "", "o2"},
         fails \in Failures : OAuthRevokeAll(c, s, o, fails)
  \/ \E a \in DOMAIN oauthApisByID, c \in ClientIDs : IssueToken(a, c)

\* the OAuth handlers read no setting of the configuration: one will do
OAuthInit == Init /\ cfg = [HashKeys |-> FALSE, HashKeyFunction |-> FALSE,
                            AllowMasterKeys |-> FALSE]

OAuthSpec == OAuthInit /\ [][OAuthNext]_vars

RevokeSpec == OAuthInit /\ [][RevokeNext]_vars

\* the step answers an OAuth request of this kind
OAuthServes(op) == ops' = ops + 1 /\ resp'.op = op

\* the storage identifier of the client that a registration stores
CreatedID ==
  oauthClientStorageID(IF resp'.request.ClientID = "" THEN "u5"
                       ELSE resp'.request.ClientID)

\* the step stores the client of the registration on these APIs and leaves
\* the clients of every other API, and every token, as they were
StoresClientOn(apis) ==
  /\ \A a \in apis :
       /\ CreatedID \in DOMAIN clients'[a]
       /\ clients'[a][CreatedID] = resp'.obj
       /\ \A k \in DOMAIN clients[a] \ {CreatedID} :
            k \in DOMAIN clients'[a] /\ clients'[a][k] = clients[a][k]
       /\ DOMAIN clients'[a] = DOMAIN clients[a] \cup {CreatedID}
  /\ \A a \in DOMAIN clients \ apis : clients'[a] = clients[a]
  /\ tokens' = tokens

\* C22: a registration that names an API stores the client in the storage
\* of that API and of no other when it succeeds; it fails and stores nothing
\* when the API is not registered or does not use OAuth2
C22_Step ==
  (OAuthServes("create") /\ resp'.request.APIID # "")
    => LET apiID == resp'.request.APIID IN
       /\ resp'.code = 200 => StoresClientOn({apiID})
       /\ resp'.code # 200 => clients' = clients /\ tokens' = tokens
       /\ (apiID \notin DOMAIN oauthApisByID \/ ~oauthApisByID[apiID].UseOauth2)
            => resp'.code = 400
       /\ apiID \notin DOMAIN oauthApisByID => resp'.msg = "API doesn't exist"
       /\ (apiID \in DOMAIN oauthApisByID /\ ~oauthApisByID[apiID].UseOauth2)
            => resp'.msg = "API is not OAuth2"

C22_ExplicitApiOnly == [][C22_Step]_vars

\* a registration for the API a1 succeeded after one that was refused for an
\* API that enables JWT only: the client is stored on a1 and nowhere else
C22_Witness ==
  /\ resp.op = "create" /\ resp.code = 200 /\ resp.request.APIID = "a1"
  /\ ops = 2
  /\ oauthClientStorageID(resp.obj.ClientID) \in DOMAIN clients["a1"]
  /\ \A a \in DOMAIN clients \ {"a1"} : clients[a] = <<>>

\* the APIs that the access rights of the policy name
PolicyNamed(policy) == DOMAIN oauthPoliciesByID[policy].AccessRights

\* those of them that are registered and enable OAuth2 or JWT
PolicyEnabled(policy) ==
  {a \in PolicyNamed(policy) \cap DOMAIN oauthApisByID :
     oauthApisByID[a].UseOauth2 \/ oauthApisByID[a].EnableJWT}

\* the step answers a registration through a known policy
ServesFanOut ==
  /\ OAuthServes("create")
  /\ resp'.request.APIID = ""
  /\ resp'.request.PolicyID \in DOMAIN oauthPoliciesByID

\* C23 as the spec states it: a registration without an API that succeeds
\* stores the client on every API of the policy that enables OAuth2 or JWT
\* and on no other; when no API of the policy enables either it answers 400
\* "API is not OAuth2" and stores nothing
C23_OriginalStep ==
  ServesFanOut
    => LET policy == resp'.request.PolicyID IN
       /\ resp'.code = 200 => StoresClientOn(PolicyEnabled(policy))
       /\ PolicyEnabled(policy) = {}
            => /\ resp'.code = 400
               /\ resp'.msg = "API is not OAuth2"
               /\ clients' = clients /\ tokens' = tokens

C23_Original == [][C23_OriginalStep]_vars

\* C23, amended: a registration without an API that succeeds stores the
\* client on every API of the policy that enables OAuth2 or JWT and on no
\* other.  When no API of the policy enables either it answers 400 and
\* stores nothing; the message is "API is not OAuth2" when every API of the
\* policy is registered.  When the policy names an API that is not
\* registered the registration fails, whatever the other APIs enable, with
\* 400 "API doesn't exist" unless a storage failure answers 500 first.  No
\* registration stores anything outside the APIs of the policy that enable
\* OAuth2 or JWT
C23_Step ==
  ServesFanOut
    => LET policy == resp'.request.PolicyID IN
       /\ resp'.code = 200 => StoresClientOn(PolicyEnabled(policy))
       /\ PolicyEnabled(policy) = {}
            => /\ resp'.code = 400
               /\ clients' = clients /\ tokens' = tokens
               /\ PolicyNamed(policy) \subseteq DOMAIN oauthApisByID
                    => resp'.msg = "API is not OAuth2"
       /\ ~(PolicyNamed(policy) \subseteq DOMAIN oauthApisByID)
            => /\ resp'.code \in {400, 500}
               /\ resp'.code = 400 => resp'.msg = "API doesn't exist"
       /\ \A a \in DOMAIN clients \ PolicyEnabled(policy) :
            clients'[a] = clients[a]

C23_PolicyFanOut == [][C23_Step]_vars

\* a registration through the policy of an OAuth2 API and a JWT API
\* succeeded: the client is on both and on no other API
C23_Witness ==
  /\ resp.op = "create" /\ resp.code = 200
  /\ resp.request.APIID = "" /\ resp.request.PolicyID = "qj"
  /\ \A a \in DOMAIN clients :
       oauthClientStorageID(resp.obj.ClientID) \in DOMAIN clients[a]
         <=> a \in {"a1", "j1"}

\* the storage identifier of the client that a rotation or an update names
NamedClient == oauthClientStorageID(resp'.request.keyName)

\* the step leaves every client other than the named one as it was
OtherClientsSame ==
  \A a \in DOMAIN clients :
    /\ DOMAIN clients'[a] = DOMAIN clients[a]
    /\ \A k \in DOMAIN clients[a] :
         (a # resp'.request.apiID \/ k # NamedClient)
           => clients'[a][k] = clients[a][k]

\* C24: a rotation that succeeds gives the client a new ClientSecret and
\* leaves its ClientID, redirect URI, PolicyID, metadata and description,
\* every other client and every token as they were; a rotation that fails
\* changes nothing
C24_Step ==
  OAuthServes("rotate")
    => LET a == resp'.request.apiID IN
       /\ tokens' = tokens
       /\ OtherClientsSame
       /\ resp'.code # 200 => clients' = clients
       /\ resp'.code = 200 =>
            /\ NamedClient \in DOMAIN clients[a]
            /\ clients'[a][NamedClient] =
                 [clients[a][NamedClient] EXCEPT !.ClientSecret = resp'.obj.ClientSecret]
            /\ clients'[a][NamedClient].ClientSecret # clients[a][NamedClient].ClientSecret

C24_RotationChangesSecretOnly == [][C24_Step]_vars

\* a rotation succeeded for a client that has a policy and a token: the
\* token is still there
C24_Witness ==
  /\ resp.op = "rotate" /\ resp.code = 200
  /\ resp.obj.PolicyID = "qj" /\ resp.obj.ClientSecret = "g2"
  /\ \E t \in tokens[resp.request.apiID] : t.ClientID = resp.request.keyName

\* the policy of the update is unknown, or its access rights do not name the
\* API of the request
PolicyMismatch ==
  LET policy == resp'.request.payload.PolicyID IN
  /\ policy # ""
  /\ \/ policy \notin DOMAIN oauthPoliciesByID
     \/ resp'.request.apiID \notin DOMAIN oauthPoliciesByID[policy].AccessRights

\* C25: an update leaves the ClientID and the ClientSecret of every stored
\* client as they were, whatever its payload carries; an update whose policy
\* does not exist, or whose policy's access rights do not include the API of
\* the client, is rejected and leaves every client and every token as it was
C25_Step ==
  OAuthServes("update")
    => /\ \A a \in DOMAIN clients :
            /\ DOMAIN clients'[a] = DOMAIN clients[a]
            /\ \A k \in DOMAIN clients[a] :
                 /\ clients'[a][k].ClientID = clients[a][k].ClientID
                 /\ clients'[a][k].ClientSecret = clients[a][k].ClientSecret
       /\ resp'.code = 200 =>
            /\ resp'.obj.ClientID = resp'.request.keyName
            /\ resp'.obj = clients'[resp'.request.apiID][NamedClient]
       /\ PolicyMismatch
            => /\ resp'.code \in {400, 404}
               /\ clients' = clients
               /\ tokens' = tokens

C25_UpdateKeepsIdentity == [][C25_Step]_vars

\* an update whose payload carries another identifier and another secret
\* succeeded: the client has the new redirect URI and its old identifier and
\* secret
C25_Witness ==
  /\ resp.op = "update" /\ resp.code = 200
  /\ resp.request.payload.ClientID = "cz"
  /\ resp.request.payload.ClientSecret = "sz"
  /\ LET c == clients[resp.request.apiID][oauthClientStorageID(resp.request.keyName)]
     IN /\ c.ClientID = "c1" /\ c.ClientSecret = "s1"
        /\ c.ClientRedirectURI = "r2" /\ c.Description = "d2"

\* the client that the update names, as stored before the step
ClientBefore == clients[resp'.request.apiID][NamedClient]

\* the tokens of that client in the storage of the API of the request
TokensOfNamed(toks) ==
  {t \in toks[resp'.request.apiID] : t.ClientID = resp'.request.keyName}

\* C26 as the spec states it: once an update that changes the PolicyID away
\* from a non-empty value has answered success, no token issued to the
\* client before it remains, whether or not calls of the token store failed;
\* an update that leaves the PolicyID as it was, or whose previous PolicyID
\* is empty, removes no token
C26_OriginalStep ==
  (OAuthServes("update") /\ resp'.code = 200)
    => IF /\ ClientBefore.PolicyID # ""
          /\ ClientBefore.PolicyID # resp'.request.payload.PolicyID
         THEN TokensOfNamed(tokens') = {}
         ELSE tokens' = tokens

C26_Original == [][C26_OriginalStep]_vars

\* the APIs of the organisation on which the client is stored
RegisteredOn(clientId, orgId) ==
  {a \in getApisIdsForOrg(orgId) :
     oauthClientStorageID(clientId) \in DOMAIN clients[a]}

\* C27 as the spec states it: a revoke-all that succeeds leaves no token of
\* the client on any API of the organisation where the client is registered,
\* the APIs it was registered on through the JWT branch included, except on
\* an API whose storage failed; when the client is registered on no API of
\* the organisation the request fails and no token is removed
C27_OriginalStep ==
  OAuthServes("revoke_all")
    => LET c == resp'.request.client_id
           apis == RegisteredOn(c, resp'.request.org_id)
       IN /\ resp'.code = 200
               => \A a \in apis \ resp'.failed :
                    \A t \in tokens'[a] : t.ClientID # c
          /\ apis = {} => resp'.code # 200 /\ tokens' = tokens

C27_Original == [][C27_OriginalStep]_vars

\* ---- /reload and the reload coordinator ----

MaxCallers == 3

\* how often the bus hands one notification to the node
MaxDeliveries == 2

\* the variables that a reload leaves alone
keyVars == <<sessions, quota, now, cfg, ops, req, resp, inflight>>

\* a handler that never waits
resetHandlerNoWait(fn, block) == 0

\* resetHandler: the count of the handler's WaitGroup when the reload is
\* queued: one for block=true without a callback, else zero
resetHandlerWait(fn, block) == IF ~fn /\ block THEN 1 ELSE 0

\* a handler that queues the callback it was given in every case
resetHandlerCallbackFn(fn, block) == IF fn THEN "fn" ELSE "nil"

\* resetHandler: the completion callback that is queued with the reload:
\* wg.Done for block=true without a callback, else the callback fn, which
\* may be nil
resetHandlerCallback(fn, block) ==
  IF ~fn /\ block THEN "wg.Done" ELSE IF fn THEN "fn" ELSE "nil"

\* gw.reloadURLStructure: the callback joins the queue of the coordinator
reloadURLStructure(queue, caller, done) ==
  Append(queue, [caller |-> caller, done |-> done])

\* resetHandler up to wg.Wait(): a /reload request arrives, with or without
\* block=true, on a route with or without a callback, and queues a reload
ResetQueue(fn, block) ==
  /\ Len(callers) < MaxCallers
  /\ callers' = Append(callers,
                       [fn |-> fn, block |-> block, pc |-> "wait",
                        wg |-> resetHandlerWait(fn, block), ran |-> 0,
                        after |-> 0])
  /\ reloadQueue' = reloadURLStructure(reloadQueue, Len(callers) + 1,
                                       resetHandlerCallback(fn, block))
  /\ UNCHANGED <<swapping, swaps, keyVars, oauthVars, registryVars>>

\* resetHandler from wg.Wait() on: the wait ends when the count is zero, and
\* the response is written; after records the swaps completed by then
ResetRespond(c) ==
  /\ c \in DOMAIN callers
  /\ callers[c].pc = "wait"
  /\ callers[c].wg = 0
  /\ callers' = [callers EXCEPT ![c].pc = "done", ![c].after = swaps]
  /\ UNCHANGED <<reloadQueue, swapping, swaps, keyVars, oauthVars, registryVars>>

\* the reload reads the definition files: the APIs and the policies that
\* the files on disk define at this moment
LoadDefinitions(fl) == [apis |-> fl.apis, policies |-> fl.policies, none |-> FALSE]

\* the reload replaces both maps of the registry by the maps it has built
SwapRegistry(reg, ld) == [apis |-> ld.apis, policies |-> ld.policies]

\* the request goroutines that hold the read lock of the registry
ReadLocked == {p \in DOMAIN readers : readers[p].locked}

\* the coordinator starts a reload when one is queued: it reads the files
StartSwap ==
  /\ ~swapping
  /\ reloadQueue # <<>>
  /\ swapping' = TRUE
  /\ loaded' = LoadDefinitions(files)
  /\ UNCHANGED <<reloadQueue, swaps, callers, keyVars, oauthVars>>
  /\ UNCHANGED <<files, registry, bus, readers>>

\* the callbacks of the caller in the queue
QueuedFor(queue, c) == {i \in DOMAIN queue : queue[i].caller = c}

\* a coordinator that runs the first callback of the queue only
RunCallbacksFirst(queue, cs) ==
  [c \in DOMAIN cs |->
     IF queue # <<>> /\ queue[1].caller = c /\ queue[1].done # "nil"
       THEN [cs[c] EXCEPT !.ran = @ + 1,
                          !.wg = IF queue[1].done = "wg.Done" THEN @ - 1 ELSE @]
       ELSE cs[c]]

\* the coordinator runs every callback of the queue that is not nil: wg.Done
\* lowers the count of the caller's WaitGroup
RunCallbacks(queue, cs) ==
  [c \in DOMAIN cs |->
     LET done == {i \in QueuedFor(queue, c) : queue[i].done # "nil"}
         released == {i \in done : queue[i].done = "wg.Done"}
     IN [cs[c] EXCEPT !.ran = @ + Cardinality(done),
                      !.wg = @ - Cardinality(released)]]

\* the swap completes: under the write lock, which waits for the read locks
\* to be released, the registry is replaced, and the callback of every reload
\* that was queued before this moment is run
FinishSwap ==
  /\ swapping
  /\ ReadLocked = {}
  /\ swapping' = FALSE
  /\ swaps' = swaps + 1
  /\ callers' = RunCallbacks(reloadQueue, callers)
  /\ reloadQueue' = <<>>
  /\ registry' = SwapRegistry(registry, loaded)
  /\ loaded' = NoDefinitions
  /\ UNCHANGED <<keyVars, oauthVars, files, bus, readers>>

\* the state of the coordinator
reloadState ==
  IF swapping THEN "Swapping"
  ELSE IF reloadQueue # <<>> THEN "ReloadQueued" ELSE "Idle"

ReloadNext ==
  \/ \E fn \in BOOLEAN, block \in BOOLEAN : ResetQueue(fn, block)
  \/ \E c \in 1..MaxCallers : ResetRespond(c)
  \/ StartSwap
  \/ FinishSwap

ReloadSpec == OAuthInit /\ [][ReloadNext]_vars

\* the coordinator's loop and the goroutine of each handler keep running
ReloadFairSpec ==
  /\ ReloadSpec
  /\ WF_vars(StartSwap)
  /\ WF_vars(FinishSwap)
  /\ \A c \in 1..MaxCallers : WF_vars(ResetRespond(c))

\* the caller asked for block=true on a route without a callback
Blocking(c) == callers[c].block /\ ~callers[c].fn

\* the step writes the response of the caller
Responds(c) == callers[c].pc = "wait" /\ callers'[c].pc = "done"

\* C28: the response of a /reload request with block=true and no callback is
\* written only after the reload it queued has completed the swap; the
\* response of any other request waits for nothing, and a callback runs in
\* the step that completes the swap of its reload, never before
C28_Step ==
  \A c \in DOMAIN callers :
    /\ (Responds(c) /\ Blocking(c))
         => /\ swaps >= 1
            /\ callers[c].ran = 1
            /\ QueuedFor(reloadQueue, c) = {}
    /\ (callers[c].pc = "wait" /\ ~Blocking(c)) => ENABLED ResetRespond(c)
    /\ callers'[c].ran # callers[c].ran
         => /\ swapping /\ swaps' = swaps + 1
            /\ QueuedFor(reloadQueue, c) # {}

C28_BlockingReloadWaits == [][C28_Step]_vars

\* a request with block=true was answered after the swap, and a request
\* with a callback was answered before the swap that then ran its callback
C28_Witness ==
  \E c, d \in DOMAIN callers :
    /\ callers[c].block /\ ~callers[c].fn
    /\ callers[c].pc = "done" /\ callers[c].after = 1
    /\ callers[d].fn /\ callers[d].pc = "done" /\ callers[d].after = 0
    /\ callers[d].ran = 1

\* C29: in every fair execution each /reload request with block=true and no
\* callback is eventually answered, also when several requests are queued
\* together and satisfied by fewer swaps
C29_BlockingReloadReturns ==
  \A c \in 1..MaxCallers :
    (c \in DOMAIN callers /\ Blocking(c))
      ~> (c \in DOMAIN callers /\ callers[c].pc = "done")

\* two requests with block=true were answered after one swap
C29_Witness ==
  \E c, d \in DOMAIN callers :
    /\ c # d /\ Blocking(c) /\ Blocking(d)
    /\ callers[c].pc = "done" /\ callers[d].pc = "done"
    /\ swaps = 1

\* C30: the swap that completes runs the callback of every reload queued
\* before that moment and empties the queue.  At every moment the swaps
\* completed are no more than the requests received, the queue holds at most
\* one callback for each request, and the callback of each request has run
\* once if it has left the queue and not at all if it is still there
C30_Step ==
  /\ swaps' = swaps + 1
       => /\ swapping /\ reloadQueue # <<>>
          /\ reloadQueue' = <<>>
          /\ \A c \in DOMAIN callers :
               (callers[c].fn \/ callers[c].block) => callers'[c].ran = 1
  /\ swaps' <= Len(callers')
  /\ Len(reloadQueue') <= Len(callers')
  /\ \A c \in DOMAIN callers' :
       /\ Cardinality(QueuedFor(reloadQueue', c)) <= 1
       /\ (callers'[c].fn \/ callers'[c].block)
            => callers'[c].ran + Cardinality(QueuedFor(reloadQueue', c)) = 1
       /\ ~(callers'[c].fn \/ callers'[c].block) => callers'[c].ran = 0

C30_ReloadsCoalesced == [][C30_Step]_vars

\* three requests were satisfied by one swap
C30_Witness ==
  /\ Len(callers) = 3 /\ swaps = 1 /\ reloadQueue = <<>> /\ ~swapping
  /\ \A c \in DOMAIN callers : callers[c].ran = 1

\* ------------------------------------- definition files and registry
\* the admin API for policies and API definitions (polHandler, apiHandler):
\* writes go to the definition files, reads come from the live registry

FileReply(fl, code, msg, key, obj) ==
  [files |-> fl, code |-> code, msg |-> msg, key |-> key, obj |-> obj]

\* the definitions a lookup or a list of the given kind is served from
LiveMap(reg, kind) == IF kind = "policy" THEN reg.policies ELSE reg.apis

\* a lookup that reads the definition file of the policy
handleGetPolicyFromFile(reg, polID) ==
  IF polID \in DOMAIN files.policies
    THEN FileReply(files, 200, "", polID, files.policies[polID])
    ELSE FileReply(files, 404, "Policy not found", "", <<>>)

\* handleGetPolicy
handleGetPolicy(reg, polID) ==
  IF polID \in DOMAIN reg.policies
    THEN FileReply(files, 200, "", polID, reg.policies[polID])
    ELSE FileReply(files, 404, "Policy not found", "", <<>>)

\* handleGetPolicyList
handleGetPolicyList(reg) == FileReply(files, 200, "", "", reg.policies)

\* handleAddOrUpdatePolicy: newPol is the decoded body, writeFails whether
\* ioutil.WriteFile returns an error
handleAddOrUpdatePolicy(fl, polID, newPol, method, writeFails) ==
  IF cfg.PolicySource = "service"
    THEN FileReply(fl, 500,
                   "Due to enabled service policy source, please use the Dashboard API",
                   "", <<>>)
  ELSE IF polID # "" /\ newPol.ID # polID /\ method = "PUT"
    THEN FileReply(fl, 400,
                   "Request ID does not match that in policy! For Update operations these must match.",
                   "", <<>>)
  ELSE IF writeFails
    THEN FileReply(fl, 500, "Failed to create file!", "", <<>>)
  ELSE FileReply([fl EXCEPT !.policies = Put(@, newPol.ID, newPol.def)], 200,
                 IF method = "POST" THEN "added" ELSE "modified", newPol.ID, <<>>)

\* handleDeletePolicy: os.Stat fails when the file does not exist
handleDeletePolicy(fl, polID, removeFails) ==
  IF polID \notin DOMAIN fl.policies
    THEN FileReply(fl, 500, "Delete failed", "", <<>>)
  ELSE IF removeFails
    THEN FileReply(fl, 500, "Delete failed", "", <<>>)
  ELSE FileReply([fl EXCEPT !.policies = Del(@, polID)], 200, "deleted", polID, <<>>)

\* polHandler
polHandler(fl, reg, method, polID, newPol, fails) ==
  CASE method = "GET" ->
         IF polID # "" THEN handleGetPolicy(reg, polID)
                       ELSE handleGetPolicyList(reg)
    [] method = "POST" -> handleAddOrUpdatePolicy(fl, polID, newPol, method, fails)
    [] method = "PUT" ->
         IF polID # "" THEN handleAddOrUpdatePolicy(fl, polID, newPol, method, fails)
         ELSE FileReply(fl, 400, "Must specify an apiID to update", "", <<>>)
    [] OTHER ->
         IF polID # "" THEN handleDeletePolicy(fl, polID, fails)
         ELSE FileReply(fl, 400, "Must specify an apiID to delete", "", <<>>)

\* handleGetAPI
handleGetAPI(reg, apiID) ==
  IF apiID \in DOMAIN reg.apis
    THEN FileReply(files, 200, "", apiID, reg.apis[apiID])
    ELSE FileReply(files, 404, "API not found", "", <<>>)

\* handleGetAPIList
handleGetAPIList(reg) == FileReply(files, 200, "", "", reg.apis)

\* writeToFile for the definition: a file of this name is removed, then the
\* new one is written, which may fail
writeToFileApi(fl, newDef, writeFails) ==
  IF writeFails
    THEN [files |-> [fl EXCEPT !.apis = Del(@, newDef.APIID)],
          err |-> "file object creation failed, write error"]
    ELSE [files |-> [fl EXCEPT !.apis = Put(@, newDef.APIID, newDef.def)],
          err |-> ""]

\* writeToFile for the OAS document of the definition
writeToFileOas(fl, newDef, writeFails) ==
  IF writeFails
    THEN [files |-> [fl EXCEPT !.oas = @ \ {newDef.APIID}],
          err |-> "file object creation failed, write error"]
    ELSE [files |-> [fl EXCEPT !.oas = @ \cup {newDef.APIID}], err |-> ""]

\* handleAddOrUpdateApi: newDef is the decoded body, valid the result of
\* apidef.Validate, fails the file whose write fails, if any
handleAddOrUpdateApi(fl, apiID, newDef, method, valid, fails) ==
  IF cfg.UseDBAppConfigs
    THEN FileReply(fl, 500,
                   "Due to enabled use_db_app_configs, please use the Dashboard API",
                   "", <<>>)
  ELSE IF apiID # "" /\ newDef.APIID # apiID
    THEN FileReply(fl, 400,
                   "Request APIID does not match that in Definition! For Update operations these must match.",
                   "", <<>>)
  ELSE IF ~valid
    THEN FileReply(fl, 400, "Validation of API Definition failed.", "", <<>>)
  ELSE LET w1 == writeToFileApi(fl, newDef, fails = "api")
           w2 == writeToFileOas(w1.files, newDef, fails = "oas")
       IN IF w1.err # "" THEN FileReply(w1.files, 500, w1.err, "", <<>>)
          ELSE IF w2.err # "" THEN FileReply(w2.files, 500, w2.err, "", <<>>)
          ELSE FileReply(w2.files, 200,
                         IF method = "POST" THEN "added" ELSE "modified",
                         newDef.APIID, <<>>)

\* handleDeleteAPI: os.Stat fails when the file does not exist
handleDeleteAPI(fl, apiID) ==
  IF apiID \notin DOMAIN fl.apis
    THEN FileReply(fl, 500, "Delete failed", "", <<>>)
    ELSE FileReply([fl EXCEPT !.apis = Del(@, apiID), !.oas = @ \ {apiID}],
                   200, "deleted", apiID, <<>>)

\* apiHandler
apiHandler(fl, reg, method, apiID, newDef, valid, fails) ==
  CASE method = "GET" ->
         IF apiID # "" THEN handleGetAPI(reg, apiID) ELSE handleGetAPIList(reg)
    [] method = "POST" -> handleAddOrUpdateApi(fl, apiID, newDef, method, valid, fails)
    [] method = "PUT" ->
         IF apiID # "" THEN handleAddOrUpdateApi(fl, apiID, newDef, method, valid, fails)
         ELSE FileReply(fl, 400, "Must specify an apiID to update", "", <<>>)
    [] OTHER ->
         IF apiID # "" THEN handleDeleteAPI(fl, apiID)
         ELSE FileReply(fl, 400, "Must specify an apiID to delete", "", <<>>)

\* the response to a request for a policy or an API definition
FileServed(kind, method, id, r) ==
  /\ ops < MaxOps
  /\ ops' = ops + 1
  /\ files' = r.files
  /\ resp' = [op |-> kind, method |-> method, id |-> id, code |-> r.code,
              msg |-> r.msg, key |-> r.key, obj |-> r.obj]
  /\ UNCHANGED <<sessions, quota, now, cfg, req, inflight, oauthVars, reloadVars,
                 registry, loaded, bus, readers>>

Methods == {"GET", "POST", "PUT", "DELETE"}

\* the policies of the requests: another definition for p1, and a new policy
NewPolicies ==
  {[ID |-> "p1", def |-> policiesByID["p2"]],
   [ID |-> "p9", def |-> policiesByID["p1"]]}

\* the API definitions of the requests: api1 for another org, and a new API
NewApis ==
  {[APIID |-> "api1", def |-> [OrgID |-> "o2", DontSetQuotasOnCreate |-> FALSE]],
   [APIID |-> "api9", def |-> [OrgID |-> Org, DontSetQuotasOnCreate |-> FALSE]]}

PolicyRequest(method, polID, newPol, fails) ==
  FileServed("policy", method, polID,
             polHandler(files, registry, method, polID, newPol, fails))

ApiRequest(method, apiID, newDef, valid, fails) ==
  FileServed("api", method, apiID,
             apiHandler(files, registry, method, apiID, newDef, valid, fails))

\* NoticeGroupReload, the command of the notification for a group reload
NoticeGroupReload == "NoticeGroupReload"

\* a handler that sends the definitions along with the signal
groupResetHandlerData(fl) == [Command |-> NoticeGroupReload, Payload |-> {fl}]

\* groupResetHandler: the notification it publishes, Payload the set of
\* definitions it carries
groupResetHandler(fl) == [Command |-> NoticeGroupReload, Payload |-> {}]

\* /reload/group: the notification is published and the request answered
GroupReset ==
  /\ ops < MaxOps
  /\ ops' = ops + 1
  /\ bus' = Append(bus, [note |-> groupResetHandler(files), delivered |-> 0])
  /\ resp' = [op |-> "reload/group", method |-> "GET", id |-> "", code |-> 200,
              msg |-> "", key |-> "", obj |-> <<>>]
  /\ UNCHANGED <<sessions, quota, now, cfg, req, inflight, oauthVars, reloadVars,
                 files, registry, loaded, readers>>

\* the bus hands a published notification to the node, in any order and more
\* than once; on a group reload the node queues a reload of its own
HandleSignal(i) ==
  /\ i \in DOMAIN bus
  /\ bus[i].delivered < MaxDeliveries
  /\ bus' = [bus EXCEPT ![i].delivered = @ + 1]
  /\ reloadQueue' =
       IF bus[i].note.Command = NoticeGroupReload
         THEN reloadURLStructure(reloadQueue, 0, "nil")
         ELSE reloadQueue
  /\ UNCHANGED <<swapping, swaps, callers, keyVars, oauthVars, files, registry,
                 loaded, readers>>

\* the configurations: definitions in files, or kept by the dashboard
RegistryConfigs ==
  {[HashKeys |-> FALSE, HashKeyFunction |-> FALSE, AllowMasterKeys |-> FALSE,
    PolicySource |-> s[1], UseDBAppConfigs |-> s[2]] :
     s \in {<<"", FALSE>>, <<"service", TRUE>>}}

RegistryInit ==
  /\ cfg \in RegistryConfigs
  /\ sessions = EmptyMap
  /\ quota = EmptyMap
  /\ now = 3
  /\ ops = 0
  /\ req = NoReq
  /\ resp = NoResp
  /\ inflight = EmptyMap
  /\ NoClients
  /\ ReloadIdle
  /\ RegistryIdle

RegistryNext ==
  \/ \E m \in Methods, id \in {"", "p1", "p9"}, n \in NewPolicies, f \in BOOLEAN :
       PolicyRequest(m, id, n, f)
  \/ \E m \in Methods, id \in {"", "api1", "api9"}, n \in NewApis,
         v \in BOOLEAN, f \in {"", "api", "oas"} : ApiRequest(m, id, n, v, f)
  \/ GroupReset
  \/ \E i \in 1..MaxOps : HandleSignal(i)
  \/ StartSwap
  \/ FinishSwap

RegistrySpec == RegistryInit /\ [][RegistryNext]_vars

\* ------------------------------------------------ claims C31 .. C40
\* every API the payload of the request refers to, policies applied, has
\* DontSetQuotasOnCreate
AllSuppressed(payload) ==
  /\ DOMAIN Effective(payload) # {}
  /\ \A a \in DOMAIN Effective(payload) :
       a \in DOMAIN apisByID /\ apisByID[a].DontSetQuotasOnCreate

\* C39 as the spec states it: whenever POST or PUT /keys/{keyName} answers
\* 200, the session is stored under the key named in the response and a GET
\* of that key, plain or by hash, finds it, whatever APIs the session refers
\* to
C39_OriginalStep ==
  (/\ Serves("POST") \/ Serves("PUT")
   /\ resp'.code = 200)
    => /\ Addr(resp'.key, req.hashed) \in DOMAIN sessions'
       /\ \E byHash \in BOOLEAN : FetchAfter(resp'.key, byHash).code = 200

C39_Original == [][C39_OriginalStep]_vars

\* the same statement for the requests that refer to at least one API
\* without DontSetQuotasOnCreate, or to none
C39_PlainStep ==
  (/\ Serves("POST") \/ Serves("PUT")
   /\ resp'.code = 200
   /\ ~AllSuppressed(req.payload))
    => /\ Addr(resp'.key, req.hashed) \in DOMAIN sessions'
       /\ \E byHash \in BOOLEAN : FetchAfter(resp'.key, byHash).code = 200

C39_Plain == [][C39_PlainStep]_vars

\* ------------------------------------------- legacy key names (C34)
\* a store that holds a key under its legacy name, under its current name,
\* or under both, asked for by its plain name
LegacyName == <<"k1">>

LegacyAddr == Addr(LegacyName, FALSE)

CurrentAddr == Addr(generateToken(Org, LegacyName), FALSE)

LegacySession ==
  FetchSession(2, 0, [a \in {"api1"} |-> Access(ZeroLimit, "")], <<>>)

CurrentSession ==
  FetchSession(4, 0, [a \in {"api1"} |-> Access(ZeroLimit, "")], <<>>)

LegacyStores ==
  {Put(EmptyMap, LegacyAddr, LegacySession),
   Put(EmptyMap, CurrentAddr, CurrentSession),
   Put(Put(EmptyMap, LegacyAddr, LegacySession), CurrentAddr, CurrentSession)}

LegacyInit ==
  /\ cfg \in Configs
  /\ sessions \in LegacyStores
  /\ quota = EmptyMap
  /\ now = 3
  /\ ops = 0
  /\ req = NoReq
  /\ resp = NoResp
  /\ inflight = EmptyMap
  /\ NoClients
  /\ ReloadIdle
  /\ RegistryIdle

LegacyPayloads ==
  {Payload(r, <<>>, 0) :
     r \in {x \in RightsChoices :
              \A a \in DOMAIN x : a \in DOMAIN apisByID /\ x[a].Limit = ZeroLimit}}

LegacyRequests ==
  {[NoReq EXCEPT !.op = "GET", !.keyName = LegacyName, !.user = u] :
     u \in BOOLEAN} \cup
  {[NoReq EXCEPT !.op = "PUT", !.keyName = LegacyName, !.user = u,
                 !.payload = p] : u \in BOOLEAN, p \in LegacyPayloads} \cup
  {[NoReq EXCEPT !.op = "DELETE", !.keyName = LegacyName, !.user = u,
                 !.apiID = a] : u \in BOOLEAN, a \in {"-1", "api1"}}

LegacyNext ==
  \/ \E r \in LegacyRequests : Receive(r)
  \/ KeyGet
  \/ \E ord \in Orders(FanOut(req.payload)) :
       \E ord2 \in Orders(FanOut(req.payload)) : KeyPut(ord, ord2)
  \/ KeyDelete

LegacySpec == LegacyInit /\ [][LegacyNext]_vars

\* the step leaves the session stored under the legacy name as it was
LegacyUntouched ==
  LegacyAddr \in DOMAIN sessions =>
    /\ LegacyAddr \in DOMAIN sessions'
    /\ sessions'[LegacyAddr] = sessions[LegacyAddr]

\* the step answers a GET, PUT or DELETE that names the key by its plain
\* name with username=true
ServesByName ==
  /\ Serves("GET") \/ Serves("PUT") \/ Serves("DELETE")
  /\ req.user /\ req.keyName = LegacyName

\* C34: keyHandler tries the current-format key first: a GET, PUT or DELETE
\* that succeeds on it leaves the legacy-format session alone; without a
\* hash key function the legacy name is never tried, the request answering
\* 404 when the current-format key is absent; with one, and the
\* current-format key absent, the session stored under the legacy name is
\* fetched, updated (never 404) and deleted by the plain name
C34_Step ==
  ServesByName =>
    /\ (CurrentAddr \in DOMAIN sessions /\ resp'.code = 200) =>
         /\ LegacyUntouched
         /\ req.op = "GET" => resp'.obj.QuotaMax = sessions[CurrentAddr].QuotaMax
         /\ req.op = "PUT" => resp'.key = generateToken(Org, LegacyName)
         /\ req.op = "DELETE" => CurrentAddr \notin DOMAIN sessions'
    /\ ~cfg.HashKeyFunction =>
         /\ LegacyUntouched
         /\ CurrentAddr \notin DOMAIN sessions => resp'.code = 404
    /\ (/\ cfg.HashKeyFunction
        /\ CurrentAddr \notin DOMAIN sessions
        /\ LegacyAddr \in DOMAIN sessions) =>
         /\ req.op = "GET" =>
              /\ resp'.code = 200
              /\ resp'.obj.QuotaMax = sessions[LegacyAddr].QuotaMax
         /\ req.op = "PUT" =>
              /\ resp'.code # 404
              /\ resp'.code = 200 =>
                   /\ resp'.key = LegacyName
                   /\ CurrentAddr \notin DOMAIN sessions'
         /\ req.op = "DELETE" =>
              /\ resp'.code = 200
              /\ LegacyAddr \notin DOMAIN sessions'

C34_CurrentThenLegacy == [][C34_Step]_vars

\* no hash key function being configured, a DELETE by the plain name of a
\* key stored under its legacy name only was answered 404 after one attempt,
\* the legacy session staying in the store
C34_Witness ==
  /\ resp.op = "DELETE" /\ resp.code = 404
  /\ ~cfg.HashKeyFunction
  /\ LegacyAddr \in DOMAIN sessions
  /\ CurrentAddr \notin DOMAIN sessions
  /\ ops = 1

\* ------------------------------------------ fan-out failures (C37)
\* registrations through a policy, whose storage of the client may fail, and
\* key writes over several access rights, the order of the map iteration
\* being recorded with the request
FanOutCreate(newOauthClient, ord, fails) ==
  OAuthServed("create", [ord |-> ord] @@ newOauthClient, fails,
              createOauthClient(OAuthStore, newOauthClient, "u5", "g1", ord, fails))

FanOutPayloads ==
  {Payload(r, <<>>, 0) :
     r \in {x \in RightsChoices : DOMAIN x # {} /\ \A a \in DOMAIN x : x[a].Limit = ZeroLimit}
           \cup {[a \in {"api1", "apiX"} |-> Access(ZeroLimit, "")],
                 [a \in {"api2", "apiX"} |-> Access(ZeroLimit, "")]}}

FanOutRequests ==
  {[NoReq EXCEPT !.op = "POST", !.keyName = n, !.payload = p] :
     n \in CustomNames, p \in FanOutPayloads} \cup
  {[NoReq EXCEPT !.op = "PUT", !.keyName = generateToken(Org, n), !.payload = p] :
     n \in CustomNames, p \in FanOutPayloads}

FanOutReceive(r, ord) == Receive([ord |-> ord] @@ r)

FanOutPost == KeyPost(req.ord)

FanOutPut == KeyPut(req.ord, req.ord)

FanOutNext ==
  \/ \E c \in {x \in CreateRequests : x.APIID = ""},
         fails \in {f \in Failures : Failed(f) = f.SetClient} :
       \E ord \in PolicyOrders(c) : FanOutCreate(c, ord, fails)
  \/ \E r \in FanOutRequests :
       \E ord \in Orders(FanOut(r.payload)) : FanOutReceive(r, ord)
  \/ FanOutPost
  \/ FanOutPut

FanOutSpec == OAuthInit /\ [][FanOutNext]_vars

\* the first position of the order at which the fan-out fails, 0 when none
FirstFailure(ord, failsAt(_)) ==
  IF \E i \in DOMAIN ord : failsAt(ord[i])
    THEN CHOOSE i \in DOMAIN ord :
           failsAt(ord[i]) /\ \A j \in 1..(i - 1) : ~failsAt(ord[j])
    ELSE 0

\* createOauthClient stops at this API: it is not registered, or it enables
\* OAuth2 or JWT and its storage fails
ClientFailsAt(a) ==
  \/ a \notin DOMAIN oauthApisByID
  \/ /\ oauthApisByID[a].UseOauth2 \/ oauthApisByID[a].EnableJWT
     /\ a \in resp'.failed

\* doAddOrUpdate stops at this API: it is not registered
KeyFailsAt(a) == a \notin DOMAIN apisByID

\* the key that the pending write stores
WrittenAddr ==
  Addr(IF req.op = "POST" THEN generateToken(Org, req.keyName) ELSE req.keyName,
       req.hashed)

\* C37: a fan-out that fails at some API keeps what it did for the APIs
\* before it in the order of iteration, touches none after it, and answers
\* one error without a status per API: a registration through a policy has
\* stored the client on the enabled APIs before the failing one and on no
\* other; a key write has stored the session when an API before the failing
\* one saved it, and left the store as it was otherwise
C37_Step ==
  /\ (ServesFanOut /\ FirstFailure(resp'.request.ord, ClientFailsAt) # 0) =>
       LET ord == resp'.request.ord
           i == FirstFailure(ord, ClientFailsAt)
           before == {ord[j] : j \in 1..(i - 1)} \cap PolicyEnabled(resp'.request.PolicyID)
       IN /\ resp'.code \in {400, 500}
          /\ resp'.obj = NoClient
          /\ \A a \in before :
               /\ CreatedID \in DOMAIN clients'[a]
               /\ clients'[a][CreatedID].PolicyID = resp'.request.PolicyID
          /\ \A a \in DOMAIN clients \ before : clients'[a] = clients[a]
  /\ (/\ Serves("POST") \/ Serves("PUT")
      /\ "ord" \in DOMAIN req
      /\ WrittenAddr \in DOMAIN sessions \/ req.op = "POST"
      /\ FirstFailure(req.ord, KeyFailsAt) # 0) =>
       LET i == FirstFailure(req.ord, KeyFailsAt)
           saved == \E j \in 1..(i - 1) : ~apisByID[req.ord[j]].DontSetQuotasOnCreate
       IN /\ resp'.code = 500
          /\ resp'.key = <<>>
          /\ saved =>
               /\ WrittenAddr \in DOMAIN sessions'
               /\ DOMAIN sessions'[WrittenAddr].AccessRights =
                    DOMAIN req.payload.AccessRights
          /\ ~saved => sessions' = sessions /\ quota' = quota

CopiesOf(cl, k) == {a \in DOMAIN cl : k \in DOMAIN cl[a]}

\* the copies of the client have one secret and one policy
CopiesAgree(cl, k) ==
  \A a \in CopiesOf(cl, k), b \in CopiesOf(cl, k) :
    /\ cl[a][k].ClientSecret = cl[b][k].ClientSecret
    /\ cl[a][k].PolicyID = cl[b][k].PolicyID

\* C40 as it is stated: a client that is stored on several APIs with the
\* same ClientSecret and the same PolicyID in each, as a registration
\* through a policy leaves it, still has one secret and one policy in every
\* storage after a rotation or an update
C40_OriginalStep ==
  (/\ OAuthServes("rotate") \/ OAuthServes("update")
   /\ Cardinality(CopiesOf(clients, NamedClient)) >= 2
   /\ resp'.failed = {}
   /\ CopiesAgree(clients, NamedClient))
    => CopiesAgree(clients', NamedClient)

C40_Original == [][C40_OriginalStep]_vars

\* --------------------------------------- concurrent key updates (C38)
\* PUT /keys/{keyName} by several request goroutines on one key: the read of
\* the stored session, the reset of its counters and the save of the new
\* session are three calls to the store, between which the limiter counts
\* requests and other updates run
RaceSession ==
  FetchSession(4, 0, [a \in {"api1"} |-> Access(Limit(2, 0), "s1")], <<>>)

RacePayloads ==
  {Payload([a \in {"api1"} |-> Access(lim, "s1")], <<>>, 0) :
     lim \in {ZeroLimit, APILimit(2, 0)}}

RaceInit ==
  /\ cfg = [HashKeys |-> FALSE, HashKeyFunction |-> FALSE, AllowMasterKeys |-> FALSE]
  /\ sessions = Put(EmptyMap, FetchAddr, RaceSession)
  /\ quota = EmptyMap
  /\ now = 3
  /\ ops = 0
  /\ req = NoReq
  /\ resp = NoResp
  /\ inflight = EmptyMap
  /\ NoClients
  /\ ReloadIdle
  /\ RegistryIdle

\* the processes whose update has saved its session
Saved == {q \in DOMAIN inflight : inflight[q].pc = "done"}

\* handleAddOrUpdate up to SessionDetail: the session read is originalKey
UpdateRead(p, payload, suppressReset) ==
  /\ req = NoReq
  /\ p \notin DOMAIN inflight
  /\ LET d == SessionDetail(Store, payload.OrgID, FetchKey, FALSE) IN
     inflight' = Put(inflight, p,
       [payload |-> payload, suppress |-> suppressReset,
        originalKey |-> d.session,
        pc |-> IF d.found THEN "read" ELSE "done",
        code |-> IF d.found THEN 0 ELSE 404,
        savedAtRead |-> Saved, savedAtSave |-> {}])
  /\ resp' = NoResp
  /\ UNCHANGED <<sessions, quota, now, cfg, ops, req>>
  /\ UNCHANGED <<oauthVars, reloadVars, registryVars>>

\* an update that reads the session again when it saves
UpdateViewFresh(p) == [sessions |-> sessions, quota |-> quota]

\* the store as the update of the process goes on with it: the session it
\* read, whatever the store holds by now
UpdateView(p) ==
  [sessions |-> Put(sessions, FetchAddr, inflight[p].originalKey),
   quota |-> quota]

\* what the rest of the handler does with the session that was read
UpdateResult(p) ==
  handleAddOrUpdate(UpdateView(p), FetchKey, inflight[p].payload, "PUT", FALSE,
                    inflight[p].suppress, <<"api1">>)

\* doAddOrUpdate, ResetQuota
UpdateReset(p) ==
  /\ req = NoReq
  /\ p \in DOMAIN inflight
  /\ inflight[p].pc = "read"
  /\ quota' = UpdateResult(p).st.quota
  /\ inflight' = [inflight EXCEPT ![p].pc = "reset"]
  /\ resp' = NoResp
  /\ UNCHANGED <<sessions, now, cfg, ops, req>>
  /\ UNCHANGED <<oauthVars, reloadVars, registryVars>>

\* doAddOrUpdate, applyPoliciesAndSave, and the answer
UpdateSave(p) ==
  /\ req = NoReq
  /\ p \in DOMAIN inflight
  /\ inflight[p].pc = "reset"
  /\ LET r == UpdateResult(p) IN
       /\ sessions' = IF r.code = 200
                        THEN Put(sessions, FetchAddr, r.st.sessions[FetchAddr])
                        ELSE sessions
       /\ inflight' = [inflight EXCEPT ![p].pc = "done", ![p].code = r.code,
                                       ![p].savedAtSave = Saved]
  /\ resp' = NoResp
  /\ UNCHANGED <<quota, now, cfg, ops, req>>
  /\ UNCHANGED <<oauthVars, reloadVars, registryVars>>

RaceNext ==
  \/ \E p \in 1..MaxProcs, payload \in RacePayloads, s \in BOOLEAN :
       UpdateRead(p, payload, s)
  \/ \E p \in 1..MaxProcs : UpdateReset(p)
  \/ \E p \in 1..MaxProcs : UpdateSave(p)
  \/ \E scope \in {"", "s1"} : RecordUse(FetchAddr, scope)

RaceSpec == RaceInit /\ [][RaceNext]_vars

\* the process saves the session of its update with this step
SavesUpdate(p) ==
  /\ p \in DOMAIN inflight /\ inflight[p].pc = "reset"
  /\ inflight'[p].pc = "done" /\ inflight'[p].code = 200

\* the counter of the key for this scope, zero when the store holds none
CounterOf(q, scope) ==
  IF <<scope>> \o FetchAddr \in DOMAIN q THEN q[<<scope>> \o FetchAddr] ELSE 0

\* C38: an update of a key is a read, a reset and a save with nothing held
\* in between: the session it saves is made of its payload and of the
\* session it read, whatever the store holds when it saves, with the
\* QuotaRenews and LastUpdated it read under suppress_reset and the
\* DateCreated it read in every case; its reset removes the counters
\* whatever they count; an increment of a counter adds one to what the
\* store holds and leaves the other counters and the session alone
C38_Step ==
  /\ \A p \in 1..MaxProcs :
       SavesUpdate(p) =>
         LET n == sessions'[FetchAddr]
             o == inflight[p].originalKey
         IN /\ n.DateCreated = o.DateCreated
            /\ n.QuotaMax = inflight[p].payload.QuotaMax
            /\ inflight[p].suppress =>
                 /\ n.QuotaRenews = o.QuotaRenews
                 /\ n.LastUpdated = o.LastUpdated
            /\ ~inflight[p].suppress =>
                 /\ n.QuotaRenews = now + n.QuotaRenewalRate
                 /\ n.LastUpdated = now
            /\ quota' = quota
  /\ \A p \in DOMAIN inflight :
       (inflight[p].pc = "read" /\ inflight'[p].pc = "reset") =>
         /\ sessions' = sessions
         /\ \A scope \in {"", "s1"} :
              CounterOf(quota', scope) =
                IF inflight[p].suppress THEN CounterOf(quota, scope) ELSE 0
  /\ (inflight' = inflight /\ quota' # quota) =>
       /\ sessions' = sessions
       /\ \E scope \in {"", "s1"} :
            /\ CounterOf(quota', scope) = CounterOf(quota, scope) + 1
            /\ \A other \in {"", "s1"} \ {scope} :
                 CounterOf(quota', other) = CounterOf(quota, other)

C38_UpdatesNotTransactional == [][C38_Step]_vars

\* an update with suppress_reset read the session, another update saved a
\* session with a new QuotaRenews, and the first saved over it with the
\* QuotaRenews it had read: the change of the second is lost
C38_Witness ==
  \E p \in DOMAIN inflight, q \in DOMAIN inflight :
    /\ inflight[p].pc = "done" /\ inflight[p].code = 200 /\ inflight[p].suppress
    /\ inflight[q].pc = "done" /\ inflight[q].code = 200 /\ ~inflight[q].suppress
    /\ q \notin inflight[p].savedAtRead
    /\ q \in inflight[p].savedAtSave
    /\ sessions[FetchAddr].QuotaRenews = inflight[p].originalKey.QuotaRenews
    /\ sessions[FetchAddr].QuotaRenews # now + sessions[FetchAddr].QuotaRenewalRate

C32_Step ==
  /\ (ops' = ops + 1 /\ resp'.op \in {"policy", "api"}) =>
       /\ registry' = registry
       /\ UNCHANGED <<sessions, quota, clients, tokens, bus>>
       /\ (resp'.method = "GET" /\ resp'.id # "") =>
            /\ files' = files
            /\ resp'.code = IF resp'.id \in DOMAIN LiveMap(registry, resp'.op)
                              THEN 200 ELSE 404
            /\ resp'.code = 200 => resp'.obj = LiveMap(registry, resp'.op)[resp'.id]
       /\ (resp'.method = "GET" /\ resp'.id = "") =>
            /\ files' = files
            /\ resp'.code = 200
            /\ resp'.obj = LiveMap(registry, resp'.op)
  /\ registry' # registry => swaps' = swaps + 1
  /\ swaps' = swaps + 1 =>
       /\ registry'.apis = loaded.apis
       /\ registry'.policies = loaded.policies
       /\ ~loaded.none

\* C32: a request that creates, updates or deletes a policy or an API
\* definition leaves the live registry, the keys and the OAuth clients as they
\* were; a lookup or a list answers from the registry as it is, whatever the
\* files say; the registry changes only when a reload swap completes, and then
\* it becomes the definitions that reload read from the files.
C32_FilesUntilSwap == [][C32_Step]_vars

\* a policy whose file has been written is looked up before any reload and is
\* not found
C32_Witness ==
  /\ resp.op = "policy"
  /\ resp.method = "GET"
  /\ resp.id \in DOMAIN files.policies
  /\ resp.id \notin DOMAIN registry.policies
  /\ resp.code = 404

\* the policy or API definition of the request exists neither as a file nor in
\* the live registry
AbsentEntity(kind, id) ==
  /\ id # ""
  /\ id \notin DOMAIN LiveMap(files, kind)
  /\ id \notin DOMAIN LiveMap(registry, kind)

C33_OriginalStep ==
  (/\ ops' = ops + 1
   /\ resp'.op \in {"policy", "api"}
   /\ AbsentEntity(resp'.op, resp'.id)) =>
     /\ resp'.method \in {"GET", "DELETE"} => resp'.code = 404
     /\ resp'.method = "PUT" => resp'.code # 200
     /\ resp'.method \in {"GET", "PUT", "DELETE"} =>
          /\ files' = files
          /\ registry' = registry

\* C33: a request that fetches or deletes a policy or an API definition that
\* does not exist is answered 404, one that updates it is not answered 200,
\* and none of them changes the files or the registry.
C33_Original == [][C33_OriginalStep]_vars

\* the definitions a reload that starts now reads from the files
Persisted == [apis |-> files.apis, policies |-> files.policies]

C31_Step ==
  /\ (ops' = ops + 1 /\ resp'.op = "reload/group") =>
       /\ resp'.code = 200
       /\ \E n \in {[Command |-> NoticeGroupReload, Payload |-> {}]} :
            bus' = Append(bus, [note |-> n, delivered |-> 0])
       /\ UNCHANGED <<files, registry, loaded>>
  /\ (\E i \in DOMAIN bus : bus'[i].delivered # bus[i].delivered) =>
       UNCHANGED <<files, registry, loaded>>
  /\ (swapping' /\ ~swapping) =>
       /\ loaded'.apis = Persisted.apis
       /\ loaded'.policies = Persisted.policies
  /\ swaps' = swaps + 1 =>
       /\ registry' = [apis |-> loaded.apis, policies |-> loaded.policies]
       /\ (registry = [apis |-> loaded.apis, policies |-> loaded.policies]) =>
            registry' = registry

\* C31: a group reload answers 200 and publishes one notification with the
\* group reload command and an empty payload, touching neither files nor
\* registry; the delivery of a notification, however often and in whatever
\* order, changes neither; a reload reads the definitions from the files as
\* they are when it starts, and when it completes the registry is exactly what
\* it read, so a reload of definitions the registry already holds leaves the
\* registry as it was.
C31_ReloadFromFiles == [][C31_Step]_vars

\* one notification has been delivered twice, two reloads have completed, and
\* the registry holds the policy that was written to a file before
C31_Witness ==
  /\ \E i \in DOMAIN bus : bus[i].delivered = 2
  /\ swaps >= 2
  /\ ~swapping
  /\ "p9" \in DOMAIN registry.policies
  /\ registry = Persisted

\* ------------------------------------------- readers of the registry
\* the handlers that read apisByID or policiesByID between RLock and RUnlock,
\* one process each, one step per element of a range and per store call

\* the readers: the API list, the policy list, the API IDs of an org, the
\* lookup of a policy by ID, the deletion of a key from all APIs and the
\* creation of a key on all APIs
ReaderKinds ==
  {[kind |-> "apis", arg |-> ""], [kind |-> "policies", arg |-> ""],
   [kind |-> "org", arg |-> Org], [kind |-> "org", arg |-> ""],
   [kind |-> "policy", arg |-> "p1"], [kind |-> "policy", arg |-> "p9"],
   [kind |-> "deleteKey", arg |-> ""], [kind |-> "createKey", arg |-> ""]}

\* the map the reader reads
ReaderMap(reg, kind) ==
  IF kind \in {"policies", "policy"} THEN reg.policies ELSE reg.apis

\* the elements the reader visits: the one it looks up, or all that the map
\* holds when the range starts
ReaderRange(reg, k) ==
  CASE k.kind = "policy" -> {k.arg} \cap DOMAIN reg.policies
    [] k.kind = "deleteKey" -> {}
    [] OTHER -> DOMAIN ReaderMap(reg, k.kind)

\* the store calls the reader makes outside a range, in order
ReaderCalls(k) ==
  IF k.kind = "deleteKey" THEN <<"RemoveSession", "ResetQuota">> ELSE <<>>

\* what the reader answers from a map that does not change under it
Listing(reg, k) ==
  LET m == ReaderMap(reg, k.kind) IN
  CASE k.kind = "org" ->
         [a \in {x \in DOMAIN m : m[x].OrgID = k.arg \/ k.arg = ""} |-> m[a]]
    [] k.kind = "policy" -> [p \in {k.arg} \cap DOMAIN m |-> m[p]]
    [] k.kind = "deleteKey" -> EmptyMap
    [] OTHER -> m

\* a reader that does not take the read lock
ReaderBeginUnlocked(reg, k) ==
  [kind |-> k.kind, arg |-> k.arg, locked |-> FALSE, pc |-> "range",
   todo |-> ReaderRange(reg, k), calls |-> ReaderCalls(k), out |-> EmptyMap,
   io |-> 0, first |-> reg]

\* RLock, and the start of the range or of the store calls
ReaderBegin(reg, k) ==
  [kind |-> k.kind, arg |-> k.arg, locked |-> TRUE, pc |-> "range",
   todo |-> ReaderRange(reg, k), calls |-> ReaderCalls(k), out |-> EmptyMap,
   io |-> 0, first |-> reg]

\* the key that is created on all APIs, and its session without access rights
LockKey == generateToken(Org, <<"k2">>)

LockSession == FetchSession(2, 0, EmptyMap, <<>>)

\* the body of createKeyHandler's loop over the APIs for one API spec
createKeyOnSpec(st, spec) ==
  LET s1 == checkAndApplyTrialPeriod(st, LockKey, LockSession, FALSE) IN
  IF ~spec.DontSetQuotasOnCreate
    THEN applyPoliciesAndSave(
           ResetQuota(st, LockKey, s1, FALSE), LockKey,
           [s1 EXCEPT !.QuotaRenews = now + s1.QuotaRenewalRate], FALSE).st
    ELSE applyPoliciesAndSave(st, LockKey, s1, FALSE).st

\* the store call of handleDeleteKey for all APIs
deleteKeyCall(st, call) ==
  IF call = "RemoveSession"
    THEN RemoveSession(st, Org, FetchKey, FALSE).st
    ELSE ResetQuota(st, FetchKey, RaceSession, FALSE)

ReaderEnter(p, k) ==
  /\ p \notin DOMAIN readers
  /\ k.kind = "deleteKey" => FetchAddr \in DOMAIN sessions
  /\ readers' = Put(readers, p, ReaderBegin(registry, k))
  /\ UNCHANGED <<keyVars, oauthVars, reloadVars, files, registry, loaded, bus>>

\* one element of the range: it is read from the map as it is now
ReaderVisit(p, id) ==
  /\ p \in DOMAIN readers
  /\ readers[p].pc = "range"
  /\ id \in readers[p].todo
  /\ LET r == readers[p]
         m == ReaderMap(registry, r.kind)
         hit == /\ id \in DOMAIN m
                /\ r.kind = "org" => (m[id].OrgID = r.arg \/ r.arg = "")
         st == IF r.kind = "createKey" /\ id \in DOMAIN m
                 THEN createKeyOnSpec(Store, m[id]) ELSE Store
     IN /\ readers' = [readers EXCEPT
                         ![p].todo = @ \ {id},
                         ![p].out = IF hit THEN Put(@, id, m[id]) ELSE @,
                         ![p].io = IF r.kind = "createKey" THEN @ + 1 ELSE @]
        /\ sessions' = st.sessions
        /\ quota' = st.quota
  /\ UNCHANGED <<now, cfg, ops, req, resp, inflight, oauthVars, reloadVars,
                 files, registry, loaded, bus>>

\* one store call outside a range
ReaderCall(p) ==
  /\ p \in DOMAIN readers
  /\ readers[p].pc = "range"
  /\ readers[p].calls # <<>>
  /\ LET st == deleteKeyCall(Store, Head(readers[p].calls)) IN
       /\ sessions' = st.sessions
       /\ quota' = st.quota
  /\ readers' = [readers EXCEPT ![p].calls = Tail(@), ![p].io = @ + 1]
  /\ UNCHANGED <<now, cfg, ops, req, resp, inflight, oauthVars, reloadVars,
                 files, registry, loaded, bus>>

\* RUnlock, at the return of the handler
ReaderExit(p) ==
  /\ p \in DOMAIN readers
  /\ readers[p].pc = "range"
  /\ readers[p].todo = {}
  /\ readers[p].calls = <<>>
  /\ readers' = [readers EXCEPT ![p].locked = FALSE, ![p].pc = "done"]
  /\ UNCHANGED <<keyVars, oauthVars, reloadVars, files, registry, loaded, bus>>

\* the files after a policy and an API definition have been rewritten and one
\* of each added
LockFiles ==
  [apis |-> Put(Put(apisByID, "api1", [OrgID |-> "o2", DontSetQuotasOnCreate |-> FALSE]),
                "api9", [OrgID |-> Org, DontSetQuotasOnCreate |-> FALSE]),
   oas |-> DOMAIN apisByID \cup {"api9"},
   policies |-> Put(Put(policiesByID, "p1", policiesByID["p2"]),
                    "p9", policiesByID["p1"])]

\* the gateway with a key in the store, rewritten files and a group reload
\* published but not yet delivered
LockInit ==
  /\ cfg = [HashKeys |-> FALSE, HashKeyFunction |-> FALSE, AllowMasterKeys |-> FALSE]
  /\ sessions = Put(EmptyMap, FetchAddr, RaceSession)
  /\ quota = EmptyMap
  /\ now = 3
  /\ ops = 0
  /\ req = NoReq
  /\ resp = NoResp
  /\ inflight = EmptyMap
  /\ NoClients
  /\ ReloadIdle
  /\ files = LockFiles
  /\ registry = [apis |-> apisByID, policies |-> policiesByID]
  /\ loaded = NoDefinitions
  /\ bus = <<[note |-> groupResetHandler(files), delivered |-> 0]>>
  /\ readers = <<>>

LockNext ==
  \/ \E p \in Procs, k \in ReaderKinds : ReaderEnter(p, k)
  \/ \E p \in Procs, id \in {"api1", "api2", "api9", "p1", "p2", "p9"} :
       ReaderVisit(p, id)
  \/ \E p \in Procs : ReaderCall(p)
  \/ \E p \in Procs : ReaderExit(p)
  \/ HandleSignal(1)
  \/ StartSwap
  \/ FinishSwap

LockSpec == LockInit /\ [][LockNext]_vars

\* the readers that are between RLock and RUnlock
Reading == {p \in DOMAIN readers : readers[p].pc = "range"}

C35_Step ==
  /\ registry' # registry => Reading = {}
  /\ \A p \in Reading :
       readers'[p].pc = "done" =>
         LET k == [kind |-> readers[p].kind, arg |-> readers[p].arg] IN
         k.kind # "createKey" =>
           \/ readers'[p].out = Listing(readers[p].first, k)
           \/ readers'[p].out = Listing(registry', k)

\* C35: the registry is never replaced while a reader is between its RLock and
\* its RUnlock, and what a reader has collected when it returns (the API
\* list, the policy list, the APIs of an org, the policy it looked up) is the
\* listing of one whole map: the one that was live when it took the lock or
\* the one that is live when it returns.
C35_OneGeneration == [][C35_Step]_vars

\* a reader of the API list returned the map it started on, whole; the
\* registry has been replaced since, and a reader of the APIs of an org is in
\* the middle of its range over the new map
C35_Witness ==
  \E p \in DOMAIN readers :
    /\ readers[p].kind = "apis"
    /\ readers[p].pc = "done"
    /\ readers[p].out = apisByID
    /\ readers[p].first.apis = apisByID
    /\ registry.apis = LockFiles.apis
    /\ \E q \in DOMAIN readers :
         /\ readers[q].kind = "org"
         /\ readers[q].pc = "range"
         /\ readers[q].first.apis = LockFiles.apis
         /\ readers[q].out # EmptyMap

C36_OriginalStep ==
  \A p \in DOMAIN readers :
    readers'[p].io # readers[p].io => ~readers[p].locked

\* C36: no process makes a call to the backing store while it holds the read
\* lock of the registry.
C36_Original == [][C36_OriginalStep]_vars

====
